---- MODULE Spec2Model ----
(***************************************************************************)
(* Shielded transaction construction engine of privacy-cash-api:           *)
(* PrivacyCashService (prepareDeposit, prepareSplDeposit, prepareWithdraw, *)
(* submitDeposit, submitWithdraw, getBalance), the UTXO reconstruction of  *)
(* services/utxo.ts and the relayer client of services/relayer.ts, run     *)
(* against a remote ledger (encrypted-output log, spent-set, fee config).  *)
(* One service call is in flight at a time; the remote ledger moves        *)
(* between any two of its awaits.                                          *)
(***************************************************************************)
EXTENDS Integers, Sequences, FiniteSets, TLC

(***************************************************************************)
(* Bounds of the model.                                                    *)
(***************************************************************************)
MaxLog == 3          \* entries the remote encrypted-output log can hold
PageCap == 2         \* most entries the remote returns for one range request
MaxSpends == 2       \* nullifier accounts other transactions create

\* amounts of the caller's ledger UTXOs, and the amounts callers ask for
Amounts == {0, 1, 2}
Deposits == {1, 2}
Withdrawals == {0, 1, 2, 3}

(***************************************************************************)
(* Program constants.                                                      *)
(***************************************************************************)
FETCH_UTXOS_GROUP_SIZE == 20000
POLL_RETRIES == 10

SOL_MINT_SHORT == "11111111111111111111111111111112"
SPL_MINT == "EPjFWdd5AufqSSqeM2qN1xzybapC8G4wEGGkZwyTDt1v"

\* unitsPerToken of the token of prepareSplDeposit
UnitsPerToken == 1000000

\* Fee schedules the relayer's /config may serve.  withdraw_fee_rate is
\* rateNum/rateDen; rentNum/rentDen is LAMPORTS_PER_SOL * withdraw_rent_fee,
\* the fixed rent fee in lamports, kept as an exact fraction.
FeeConfigs ==
    { [rateNum |-> 0, rateDen |-> 1, rentNum |-> 0, rentDen |-> 1],
      [rateNum |-> 1, rateDen |-> 2, rentNum |-> 1, rentDen |-> 2] }

Kinds == {"prepareDeposit", "prepareSplDeposit", "prepareWithdraw",
          "getBalance", "submitDeposit", "submitWithdraw"}
PrepareKinds == {"prepareDeposit", "prepareSplDeposit", "prepareWithdraw"}
DepositKinds == {"prepareDeposit", "prepareSplDeposit"}

VARIABLES
    \* remote authority
    ledger,        \* the append-only encrypted-output log
    ledgerMint,    \* the asset whose log and tree this is
    spentSet,      \* nullifier program addresses that exist on chain
    relayed,       \* the relay accepted a transaction that is not in the log yet
    remoteConfig,  \* the fee schedule /config serves
    \* module state of relayer.ts
    cachedConfig,  \* <<>> (null) or <<cfg>>
    \* the call in flight
    kind, pc, arg, error, returned,
    \* getUtxos
    offset, page, decrypted, validUtxos, examined, fetches,
    lastCheck,     \* the latest areUtxosSpent: its input, what it saw, its flags
    reportedSpent, \* nullifiers some areUtxosSpent has reported spent
    \* prepare*
    fee, treeState, inputs, outputAmount, merklePaths, outputs, extAmount,
    \* submit*
    pollId, retries, confirmed, result,
    delays,        \* the delays the confirmation poll has awaited, in ms
    \* every remote call of the call in flight, in order: <<endpoint, outcome>>
    remoteCalls,
    \* a Utxo object in the hands of its user
    utxoObj,       \* <<>> or <<the object>>
    utxoCall,      \* the latest getCommitment / getNullifier on it
    \* concurrent callers of getRelayerConfig
    cfgCallers,    \* per caller: where it is in getRelayerConfig, what it holds
    cfgFirst,      \* <<>> or <<the configuration obtained first>>
    cfgServed,     \* the configurations the remote has answered with
    \* one HTTP request to a route of the API
    httpReq,       \* <<>> or <<[route, body]>>
    httpCalled,    \* <<>> or <<the orchestrator operation the handler called>>
    httpRes,       \* <<>> or <<[status, error]>>
    \* an EncryptionService and a ciphertext in the hands of its user
    encKeys,       \* the four key fields, <<>> for null
    encBuf,        \* the ciphertext at hand, a sequence of bytes
    encMade,       \* what encBuf was made from and whether it was altered
    encCall,       \* the latest call on the service and its outcome
    \* a transaction built from a proof, the chain, and a spent check
    txBuilt,       \* <<>> or <<what the transaction builder made>>
    txAccounts,    \* nullifier addresses accepted transactions have created
    txSpent,       \* nullifiers accepted transactions have consumed
    txProbe        \* the latest areUtxosSpent on one nullifier

remoteVars == <<ledger, ledgerMint, spentSet, relayed, remoteConfig>>
frameVars == <<kind, pc, arg, error, returned>>
reconVars == <<offset, page, decrypted, validUtxos, examined, fetches, lastCheck>>
prepVars == <<fee, treeState, inputs, outputAmount, merklePaths, outputs, extAmount>>
submitVars == <<pollId, retries, confirmed, result, delays>>
vars == <<ledger, ledgerMint, spentSet, relayed, remoteConfig, cachedConfig,
          kind, pc, arg, error, returned,
          offset, page, decrypted, validUtxos, examined, fetches,
          lastCheck, reportedSpent,
          fee, treeState, inputs, outputAmount, merklePaths, outputs, extAmount,
          pollId, retries, confirmed, result, delays, remoteCalls,
          utxoObj, utxoCall, cfgCallers, cfgFirst, cfgServed,
          httpReq, httpCalled, httpRes, encKeys, encBuf, encMade, encCall,
          txBuilt, txAccounts, txSpent, txProbe>>

utxoVars == <<utxoObj, utxoCall>>
cfgVars == <<cfgCallers, cfgFirst, cfgServed>>
\* the state the service calls do not touch
httpVars == <<httpReq, httpCalled, httpRes>>
encVars == <<encKeys, encBuf, encMade, encCall>>
txVars == <<txBuilt, txAccounts, txSpent, txProbe>>
sideVars == <<utxoVars, cfgVars, httpVars, encVars, txVars>>
\* the state of the service calls and of the remote
mainVars == <<ledger, ledgerMint, spentSet, relayed, remoteConfig, cachedConfig,
              kind, pc, arg, error, returned,
              offset, page, decrypted, validUtxos, examined, fetches,
              lastCheck, reportedSpent,
              fee, treeState, inputs, outputAmount, merklePaths, outputs, extAmount,
              pollId, retries, confirmed, result, delays, remoteCalls>>

(***************************************************************************)
(* Sequences.                                                              *)
(***************************************************************************)
Min(a, b) == IF a <= b THEN a ELSE b

SubSeqFrom(s, lo, hi) == IF lo > hi THEN <<>> ELSE SubSeq(s, lo, hi)

RECURSIVE SumAmounts(_)
SumAmounts(s) == IF s = <<>> THEN 0 ELSE Head(s).amount + SumAmounts(Tail(s))

\* Array.prototype.sort with (a, b) => b.amount.cmp(a.amount): stable,
\* descending by amount.
RECURSIVE InsertDesc(_, _)
InsertDesc(u, s) ==
    IF s = <<>> THEN <<u>>
    ELSE IF Head(s).amount >= u.amount THEN <<Head(s)>> \o InsertDesc(u, Tail(s))
    ELSE <<u>> \o s

RECURSIVE SortDesc(_)
SortDesc(s) ==
    IF s = <<>> THEN <<>>
    ELSE InsertDesc(s[Len(s)], SortDesc(SubSeqFrom(s, 1, Len(s) - 1)))

(***************************************************************************)
(* models/utxo.ts                                                          *)
(***************************************************************************)
\* new Utxo({...}): commitment and nullifier start unset (<<>>).
Utxo(amount, keypair, blinding, index, mintAddress, version) ==
    [amount |-> amount, keypair |-> keypair, blinding |-> blinding,
     index |-> index, mintAddress |-> mintAddress, version |-> version,
     commitment |-> <<>>, nullifier |-> <<>>]

\* poseidonHashString([amount, pubkey, blinding, mintAddressField])
PoseidonCommitment(u) ==
    <<"commitment", u.amount, u.keypair, u.blinding, u.mintAddress>>

\* getCommitment(): the object after the call (memoized value filled in).
GetCommitment(u) ==
    IF u.commitment # <<>> THEN u
    ELSE [u EXCEPT !.commitment = <<PoseidonCommitment(u)>>]

\* poseidonHashString([commitment, index, keypair.sign(commitment, index)])
PoseidonNullifier(commitment, index, keypair) ==
    <<"nullifier", commitment, index, keypair>>

\* getNullifier(): the object after the call.
GetNullifier(u) ==
    IF u.nullifier # <<>> THEN u
    ELSE LET c == GetCommitment(u)
         IN [c EXCEPT !.nullifier =
                <<PoseidonNullifier(Head(c.commitment), c.index, c.keypair)>>]

NullifierOf(u) == Head(GetNullifier(u).nullifier)

\* PublicKey.findProgramAddressSync([prefix, nullifierBytes], programId)
NullifierPDA(prefix, nullifier) == <<prefix, nullifier>>

\* the two nullifier addresses of a UTXO
NullifierPDAs(u) ==
    {NullifierPDA(prefix, NullifierOf(u)) : prefix \in {"nullifier0", "nullifier1"}}

(***************************************************************************)
(* The remote ledger.                                                      *)
(***************************************************************************)
\* An encrypted output: ct names the ciphertext; owner, amount and
\* plainIndex are what the plaintext amount|blinding|index|mint holds.
\* The blinding of an output is unique to it.
Entry(ct, owner, amount, plainIndex) ==
    [ct |-> ct, owner |-> owner, amount |-> amount, plainIndex |-> plainIndex]

\* GET /utxos/range?start&end: the entries at tree positions start..end-1,
\* at most PageCap of them, and whether entries follow the last one sent.
RangeResponse(start, end) ==
    LET last == Min(Min(end, start + PageCap), Len(ledger))
    IN [encrypted_outputs |-> SubSeqFrom(ledger, start + 1, last),
        hasMore |-> last < Len(ledger)]

\* POST /utxos/indices: the tree position of each ciphertext, <<>> for a
\* ciphertext the log does not hold.
IndexOfCt(ct) ==
    IF \E i \in 1..Len(ledger) : ledger[i].ct = ct
    THEN <<(CHOOSE i \in 1..Len(ledger) : ledger[i].ct = ct) - 1>>
    ELSE <<>>

\* GET /utxos/check/{encryptedOutput}: the ledger indexes its entries by the
\* hex string of the ciphertext.
UtxoExists(id) == \E i \in 1..Len(ledger) : id = <<"hex", ledger[i].ct>>

\* GET /merkle/root
TreeStateNow == [root |-> <<"root", Len(ledger)>>, nextIndex |-> Len(ledger)]

(***************************************************************************)
(* encryption.ts: decryptUtxo.  Only the caller's outputs decrypt (for any *)
(* other, decryptUtxo throws: wrong key, bad tag or unparsable plaintext); *)
(* the UTXO gets the amount, blinding, index and mint of the plaintext and *)
(* the spending keypair of the ciphertext's version.                       *)
(***************************************************************************)
Decrypts(e) == e.owner = "me"

\* Variant of DecryptUtxo that computes the nullifier as soon as the
\* plaintext is parsed.
DecryptUtxoWithNullifier(e) ==
    GetNullifier(Utxo(e.amount, "v2", <<"ct", e.ct>>, e.plainIndex, ledgerMint, "v2"))

DecryptUtxo(e) ==
    Utxo(e.amount, "v2", <<"ct", e.ct>>, e.plainIndex, ledgerMint, "v2")

(***************************************************************************)
(* utxo.ts                                                                 *)
(***************************************************************************)
\* Variant of DecryptResults that keeps an output whose decryption failed.
DecryptResultsAll(outs) ==
    [i \in 1..Len(outs) |->
        [utxo |-> DecryptUtxo(outs[i]), encryptedOutput |-> outs[i].ct]]

\* decryptOutputs, first loop: one result per output that decrypts.
DecryptResults(outs) ==
    LET mine == SelectSeq(outs, Decrypts)
    IN [i \in 1..Len(mine) |->
            [utxo |-> DecryptUtxo(mine[i]), encryptedOutput |-> mine[i].ct]]

\* Variant of UpdateIndices that never writes the looked-up index.
UpdateIndicesNone(results, indices) == results

\* decryptOutputs, second loop: results[i].utxo.index = indices[i] where
\* indices[i] is a number (<<>> stands for anything else).
UpdateIndices(results, indices) ==
    [i \in 1..Len(results) |->
        IF indices[i] # <<>>
        THEN [results[i] EXCEPT !.utxo.index = indices[i][1]]
        ELSE results[i]]

\* getUtxos: decrypted.filter(u => u.utxo && u.utxo.amount.gt(0)).map(u => u.utxo)
NonZeroUtxos(results) ==
    LET nz == SelectSeq(results, LAMBDA r : r.utxo.amount > 0)
    IN [i \in 1..Len(nz) |-> nz[i].utxo]

\* areUtxosSpent: the addresses probed, two per UTXO, each tagged with the
\* position of its UTXO in the input.
AllPDAs(utxos) ==
    [j \in 1..(2 * Len(utxos)) |->
        LET i == (j + 1) \div 2
        IN [utxoIndex |-> i,
            pda |-> NullifierPDA(IF j % 2 = 1 THEN "nullifier0" ELSE "nullifier1",
                                 NullifierOf(utxos[i]))]]

\* Variant of SpentFlags that wants both accounts of a UTXO to exist.
SpentFlagsBoth(utxos, allPDAs, results) ==
    [i \in 1..Len(utxos) |->
        \A j \in 1..Len(allPDAs) : allPDAs[j].utxoIndex = i => results[j]]

\* areUtxosSpent: spentFlags from the account infos (TRUE = account exists).
SpentFlags(utxos, allPDAs, results) ==
    [i \in 1..Len(utxos) |->
        \E j \in 1..Len(allPDAs) : allPDAs[j].utxoIndex = i /\ results[j]]

\* connection.getMultipleAccountsInfo
AccountsExist(allPDAs) ==
    [j \in 1..Len(allPDAs) |-> allPDAs[j].pda \in spentSet]

\* getUtxos: the UTXOs pushed to validUtxos, nullifier memoized by the check.
RECURSIVE Unspent(_, _)
Unspent(utxos, flags) ==
    IF utxos = <<>> THEN <<>>
    ELSE (IF Head(flags) THEN <<>> ELSE <<GetNullifier(Head(utxos))>>)
         \o Unspent(Tail(utxos), Tail(flags))

\* Variant of NextOffset that advances by the window asked for.
NextOffsetByWindow(off, outs) == off + FETCH_UTXOS_GROUP_SIZE

\* Variant of NextOffset that stays on the page just read.
NextOffsetSamePage(off, outs) == off

\* getUtxos: offset += encryptedOutputs.length
NextOffset(off, outs) == off + Len(outs)

\* getBalanceFromUtxos
GetBalanceFromUtxos(utxos) == SumAmounts(utxos)

(***************************************************************************)
(* bn.js numbers, as the service and the serializer use them.              *)
(***************************************************************************)
\* bigIntToLeBytes(value, length): bytes[i] = temp & 0xff; temp >>= 8
RECURSIVE BigIntToLeBytes(_, _)
BigIntToLeBytes(value, length) ==
    IF length = 0 THEN <<>>
    ELSE <<value % 256>> \o BigIntToLeBytes(value \div 256, length - 1)

\* A BN: its sign and its magnitude as little-endian bytes without leading
\* zero bytes (zero is the empty magnitude).
RECURSIVE Strip(_)
Strip(bytes) ==
    IF bytes # <<>> /\ bytes[Len(bytes)] = 0
    THEN Strip(SubSeq(bytes, 1, Len(bytes) - 1))
    ELSE bytes

\* new BN(n) of a JavaScript number
BNOf(n) ==
    [negative |-> n < 0,
     mag |-> Strip(BigIntToLeBytes(IF n < 0 THEN 0 - n ELSE n, 8))]

\* zero-extension of a magnitude to length bytes
Pad(mag, length) == mag \o [i \in 1..(length - Len(mag)) |-> 0]

\* inotn(width): every bit of the low width / 8 bytes inverted
Notn(mag, length) == [i \in 1..length |-> 255 - Pad(mag, length)[i]]

\* iaddn(1)
RECURSIVE Incr(_)
Incr(bytes) ==
    IF bytes = <<>> THEN <<1>>
    ELSE IF bytes[1] < 255 THEN <<bytes[1] + 1>> \o Tail(bytes)
    ELSE <<0>> \o Incr(Tail(bytes))

\* bn.toTwos(64): a negative number becomes abs().inotn(64).iaddn(1)
ToTwos64(bn) ==
    IF bn.negative
    THEN [negative |-> FALSE, mag |-> Strip(Incr(Notn(bn.mag, 8)))]
    ELSE bn

\* bn.toArray('le', length): the magnitude, zero-padded to length bytes
ToArrayLe(bn, length) == Pad(bn.mag, length)

RECURSIVE CmpMag(_, _)
\* cmp of two magnitudes: -1, 0 or 1
CmpMag(a, b) ==
    IF Len(a) # Len(b) THEN (IF Len(a) < Len(b) THEN 0 - 1 ELSE 1)
    ELSE IF a = <<>> THEN 0
    ELSE IF a[Len(a)] # b[Len(b)]
         THEN (IF a[Len(a)] < b[Len(b)] THEN 0 - 1 ELSE 1)
    ELSE CmpMag(SubSeq(a, 1, Len(a) - 1), SubSeq(b, 1, Len(b) - 1))

RECURSIVE AddMag(_, _, _)
\* the sum of two magnitudes and a carry
AddMag(a, b, carry) ==
    IF a = <<>> /\ b = <<>> THEN (IF carry = 0 THEN <<>> ELSE <<carry>>)
    ELSE LET x == IF a = <<>> THEN 0 ELSE a[1]
             y == IF b = <<>> THEN 0 ELSE b[1]
             t == x + y + carry
         IN <<t % 256>> \o AddMag(IF a = <<>> THEN <<>> ELSE Tail(a),
                                  IF b = <<>> THEN <<>> ELSE Tail(b),
                                  t \div 256)

RECURSIVE SubMag(_, _, _)
\* the difference of two magnitudes, the first not the smaller
SubMag(a, b, borrow) ==
    IF a = <<>> THEN <<>>
    ELSE LET y == IF b = <<>> THEN 0 ELSE b[1]
             t == a[1] - y - borrow
         IN <<(t + 256) % 256>> \o SubMag(Tail(a),
                                          IF b = <<>> THEN <<>> ELSE Tail(b),
                                          IF t < 0 THEN 1 ELSE 0)

\* x.neg()
BNNeg(x) == IF x.mag = <<>> THEN x ELSE [x EXCEPT !.negative = ~x.negative]

\* x.add(y)
BNAdd(x, y) ==
    IF x.negative = y.negative
    THEN [negative |-> x.negative, mag |-> AddMag(x.mag, y.mag, 0)]
    ELSE LET c == CmpMag(x.mag, y.mag)
         IN IF c = 0 THEN [negative |-> FALSE, mag |-> <<>>]
            ELSE IF c > 0
                 THEN [negative |-> x.negative, mag |-> Strip(SubMag(x.mag, y.mag, 0))]
                 ELSE [negative |-> y.negative, mag |-> Strip(SubMag(y.mag, x.mag, 0))]

\* x.sub(y)
BNSub(x, y) == BNAdd(x, BNNeg(y))

RECURSIVE ModMag(_, _)
ModMag(a, m) ==
    IF CmpMag(a, m) < 0 THEN a ELSE ModMag(Strip(SubMag(a, m, 0)), m)

\* x.mod(m) for m > 0: the remainder with the sign of x
BNMod(x, m) ==
    LET r == ModMag(x.mag, m.mag)
    IN [negative |-> x.negative /\ r # <<>>, mag |-> r]

\* FIELD_SIZE = new BN('2188824287183927522224640574525727508854836440041603
\* 4343698204186575808495617'), here in its 32 little-endian bytes
FIELD_SIZE ==
    [negative |-> FALSE,
     mag |-> <<
        1, 0, 0, 240, 147, 245, 225, 67, 145, 112, 185, 121, 72, 232,
        51, 40, 93, 88, 129, 129, 182, 69, 80, 184, 41, 160, 49, 225,
        114, 78, 100, 48 >>]

\* Variant of PublicAmountForCircuit that leaves the difference unreduced.
PublicAmountUnreduced(k, ext, feeAmount) ==
    IF k = "prepareSplDeposit" THEN BNOf(ext)
    ELSE BNSub(BNOf(ext), BNOf(feeAmount))

\* publicAmountForCircuit: new BN(extAmount).sub(new BN(fee)).add(FIELD_SIZE)
\* .mod(FIELD_SIZE); prepareSplDeposit: new BN(baseUnits).add(..).mod(..)
PublicAmountForCircuit(k, ext, feeAmount) ==
    IF k = "prepareSplDeposit"
    THEN BNMod(BNAdd(BNOf(ext), FIELD_SIZE), FIELD_SIZE)
    ELSE BNMod(BNAdd(BNSub(BNOf(ext), BNOf(feeAmount)), FIELD_SIZE), FIELD_SIZE)

(***************************************************************************)
(* privacy-cash.ts: the arithmetic and the input/output construction of    *)
(* the prepare operations.                                                 *)
(***************************************************************************)
\* Variant of FeeInLamports that floors the rate fee and the rent fee apart.
FeeInLamportsFloorEach(lamports, cfg) ==
    ((lamports * cfg.rateNum) \div cfg.rateDen) + (cfg.rentNum \div cfg.rentDen)

\* Math.floor(lamports * withdraw_fee_rate + LAMPORTS_PER_SOL * withdraw_rent_fee)
FeeInLamports(lamports, cfg) ==
    (lamports * cfg.rateNum * cfg.rentDen + cfg.rentNum * cfg.rateDen)
        \div (cfg.rateDen * cfg.rentDen)

\* Math.floor(amount * tokenConfig.unitsPerToken), amount = num / den tokens
BaseUnits(amount) == (amount.num * UnitsPerToken) \div amount.den

\* what the operation moves: lamports, or the base units of the token amount
Amount(k, a) == IF k = "prepareSplDeposit" THEN BaseUnits(a) ELSE a

\* const feeAmount = 0 of the deposits
DepositFee == 0

\* new Utxo({ lightWasm, keypair, amount: '0', mintAddress }): random blinding,
\* index ?? 0
Placeholder(keypair, n, mint) == Utxo(0, keypair, <<"rnd", n>>, 0, mint, "v2")

\* prepareDeposit / prepareSplDeposit: inputs from the reconstructed UTXOs
DepositInputs(existingUtxos, mint) ==
    IF Len(existingUtxos) = 0
    THEN <<Placeholder("v2", 1, mint), Placeholder("v2", 2, mint)>>
    ELSE <<existingUtxos[1],
           IF Len(existingUtxos) > 1 THEN existingUtxos[2]
           ELSE Placeholder("v2", 2, mint)>>

\* Variant of DepositOutputAmount that forgets the consolidated inputs.
DepositOutputAmountFresh(existingUtxos, ins, amount) == amount - DepositFee

\* prepareDeposit / prepareSplDeposit: outputAmount
DepositOutputAmount(existingUtxos, ins, amount) ==
    IF Len(existingUtxos) = 0 THEN amount - DepositFee
    ELSE (ins[1].amount + ins[2].amount) + amount - DepositFee

\* Variant of WithdrawInputs that takes the first two in ledger order.
WithdrawInputsUnsorted(existingUtxos) ==
    <<existingUtxos[1],
      IF Len(existingUtxos) > 1 THEN existingUtxos[2]
      ELSE Placeholder("v1", 2, SOL_MINT_SHORT)>>

\* prepareWithdraw: sort by amount descending, take the first two
WithdrawInputs(existingUtxos) ==
    LET sorted == SortDesc(existingUtxos)
    IN <<sorted[1],
         IF Len(sorted) > 1 THEN sorted[2]
         ELSE Placeholder("v1", 2, SOL_MINT_SHORT)>>

\* Variant of ChangeAmount that forgets the fee.
ChangeAmountNoFee(totalInputAmount, amountAfterFee, feeInLamports) ==
    totalInputAmount - amountAfterFee

\* prepareWithdraw: changeAmount
ChangeAmount(totalInputAmount, amountAfterFee, feeInLamports) ==
    totalInputAmount - amountAfterFee - feeInLamports

\* Variant of ExtAmount that leaves the withdrawn amount unsigned.
ExtAmountUnsigned(k, amount, amountAfterFee) ==
    IF k = "prepareWithdraw" THEN amountAfterFee ELSE amount

\* prepareWithdraw: extAmount = -amountAfterFee; deposits: the amount
ExtAmount(k, amount, amountAfterFee) ==
    IF k = "prepareWithdraw" THEN 0 - amountAfterFee ELSE amount

\* Variant of Outputs that places the outputs at the end of the log as it is
\* when they are built, not at the queried nextIndex.
OutputsAtLogEnd(amount, nextIndex, mint) ==
    <<Utxo(amount, "v2", <<"rnd", 3>>, Len(ledger), mint, "v2"),
      Utxo(0, "v2", <<"rnd", 4>>, Len(ledger) + 1, mint, "v2")>>

\* the two output UTXOs, at nextIndex and nextIndex + 1
Outputs(amount, nextIndex, mint) ==
    <<Utxo(amount, "v2", <<"rnd", 3>>, nextIndex, mint, "v2"),
      Utxo(0, "v2", <<"rnd", 4>>, nextIndex + 1, mint, "v2")>>

\* mint of the placeholders and outputs an operation creates
MintOf(k) == IF k = "prepareSplDeposit" THEN SPL_MINT ELSE SOL_MINT_SHORT

\* whether the operation fetches a Merkle path for input i (else zero path)
NeedsMerkleProof(k, existingUtxos, ins, i) ==
    IF k = "prepareWithdraw" THEN ins[i].amount # 0
    ELSE Len(existingUtxos) > 0 /\ (i = 1 \/ ins[i].amount > 0)

ZeroPath == <<"zeroPath">>

(***************************************************************************)
(* Initial state: an empty log, nothing spent, no call in flight.          *)
(***************************************************************************)
NoPage == [encrypted_outputs |-> <<>>, hasMore |-> FALSE]
NoFee == [feeInLamports |-> 0, amountAfterFee |-> 0]
NoTree == [root |-> <<"root", 0>>, nextIndex |-> 0]
NoCheck == [utxos |-> <<>>, accounts |-> {}, flags |-> <<>>]

NoCall == [op |-> "none"]

\* encryption.ts 15-18: the key fields of a new EncryptionService
NoKeys ==
    [encryptionKeyV1 |-> <<>>, encryptionKeyV2 |-> <<>>,
     utxoPrivateKeyV1 |-> <<>>, utxoPrivateKeyV2 |-> <<>>]
NoCiphertext == [version |-> "none"]

MaxCallers == 2
Callers == 1..MaxCallers
\* issued: whether the call sent a request ("no") and, if so, whether the
\* cache was "empty" or "set" at that moment
NoCaller == [pc |-> "idle", response |-> <<>>, returned |-> <<>>, issued |-> "no"]

\* nothing but the service is in use
SideIdle ==
    /\ utxoObj = <<>> /\ utxoCall = NoCall
    /\ cfgCallers = [c \in Callers |-> NoCaller] /\ cfgFirst = <<>> /\ cfgServed = {}
    /\ httpReq = <<>> /\ httpCalled = <<>> /\ httpRes = <<>>
    /\ encKeys = NoKeys /\ encBuf = <<>> /\ encMade = NoCiphertext /\ encCall = NoCall
    /\ txBuilt = <<>> /\ txAccounts = {} /\ txSpent = {} /\ txProbe = NoCall

IdleFrame ==
    /\ kind = "none" /\ pc = "idle" /\ arg = 0 /\ error = "" /\ returned = <<>>
    /\ offset = 0 /\ page = NoPage /\ decrypted = <<>> /\ validUtxos = <<>>
    /\ examined = <<>> /\ fetches = <<>> /\ lastCheck = NoCheck
    /\ fee = NoFee /\ treeState = NoTree /\ inputs = <<>> /\ outputAmount = 0
    /\ merklePaths = <<>> /\ outputs = <<>> /\ extAmount = 0
    /\ pollId = <<"hex", 0>> /\ retries = 0 /\ confirmed = FALSE /\ result = <<>>
    /\ delays = <<>>
    /\ remoteCalls = <<>>

InitRemote(mints, configs) ==
    /\ ledger = <<>>
    /\ ledgerMint \in mints
    /\ spentSet = {}
    /\ relayed = FALSE
    /\ remoteConfig \in configs
    /\ cachedConfig = <<>>
    /\ reportedSpent = {}
    /\ IdleFrame /\ SideIdle

\* The prepare operations: the log of either asset, any fee schedule (only
\* the native asset is withdrawn).
Init ==
    /\ InitRemote({SOL_MINT_SHORT, SPL_MINT}, FeeConfigs)
    /\ ledgerMint = SPL_MINT =>
            remoteConfig = [rateNum |-> 0, rateDen |-> 1, rentNum |-> 0, rentDen |-> 1]

(***************************************************************************)
(* The remote authority, driven by other actors.                           *)
(***************************************************************************)
\* The outputs another transaction can append at tree position n: one of
\* somebody else, or one of the caller, whose plaintext carries the index
\* its sender computed from nextIndex: the true position or, when the tree
\* moved before the transaction landed, a stale one (here: of the largest).
Appendable(n) ==
    {Entry(n + 1, "other", 0, 0)}
        \cup {Entry(n + 1, "me", a, n) : a \in Amounts \ {2}}
        \cup {Entry(n + 1, "me", 2, 0)}

AppendOutput ==
    /\ Len(ledger) < MaxLog
    /\ \E e \in Appendable(Len(ledger)) : ledger' = Append(ledger, e)
    /\ UNCHANGED <<ledgerMint, spentSet, relayed, remoteConfig, cachedConfig, reportedSpent>>
    /\ UNCHANGED <<frameVars, reconVars, prepVars, submitVars, remoteCalls>>
    /\ UNCHANGED sideVars

\* The UTXO of ledger entry i as the transaction that spends it sees it.
LedgerUtxo(i) == [DecryptUtxo(ledger[i]) EXCEPT !.index = i - 1]

\* A transaction spending one of the caller's UTXOs lands: it creates the
\* account of that UTXO's nullifier under the prefix of its input slot.  The
\* chain lets a UTXO be spent once.
SpendOnChain ==
    /\ Cardinality(spentSet) < MaxSpends
    /\ \E i \in 1..Len(ledger), prefix \in {"nullifier0", "nullifier1"} :
          /\ ledger[i].owner = "me" /\ ledger[i].amount > 0
          /\ NullifierPDAs(LedgerUtxo(i)) \cap spentSet = {}
          /\ spentSet' = spentSet
                \cup {NullifierPDA(prefix, NullifierOf(LedgerUtxo(i)))}
    /\ UNCHANGED <<ledger, ledgerMint, relayed, remoteConfig, cachedConfig, reportedSpent>>
    /\ UNCHANGED <<frameVars, reconVars, prepVars, submitVars, remoteCalls>>
    /\ UNCHANGED sideVars

\* The transaction the relay accepted lands: its first encrypted output
\* (ciphertext 0) joins the log.  A transaction lands once.
LandRelayed ==
    /\ relayed /\ Len(ledger) < MaxLog
    /\ ~UtxoExists(<<"hex", 0>>)
    /\ ledger' = Append(ledger, Entry(0, "me", 1, Len(ledger)))
    /\ relayed' = FALSE
    /\ UNCHANGED <<ledgerMint, spentSet, remoteConfig, cachedConfig, reportedSpent>>
    /\ UNCHANGED <<frameVars, reconVars, prepVars, submitVars, remoteCalls>>
    /\ UNCHANGED sideVars

(***************************************************************************)
(* Steps shared by the calls.                                              *)
(***************************************************************************)
Called(endpoint, outcome) ==
    remoteCalls' = Append(remoteCalls, <<endpoint, outcome>>)

Throw(message) == pc' = "failed" /\ error' = message

\* A call enters: the code up to its first await.
Enter(k, a, first) ==
    /\ pc = "idle"
    /\ kind' = k /\ arg' = a /\ pc' = first
    /\ UNCHANGED <<error, returned, remoteVars, cachedConfig, reportedSpent>>
    /\ UNCHANGED <<reconVars, prepVars, retries, confirmed, result, delays, remoteCalls>>
    /\ UNCHANGED sideVars

\* The caller takes the outcome; the frame is gone.
Return ==
    /\ pc \in {"done", "failed"}
    /\ kind' = "none" /\ pc' = "idle" /\ arg' = 0 /\ error' = "" /\ returned' = <<>>
    /\ offset' = 0 /\ page' = NoPage /\ decrypted' = <<>> /\ validUtxos' = <<>>
    /\ examined' = <<>> /\ fetches' = <<>> /\ lastCheck' = NoCheck
    /\ fee' = NoFee /\ treeState' = NoTree /\ inputs' = <<>> /\ outputAmount' = 0
    /\ merklePaths' = <<>> /\ outputs' = <<>> /\ extAmount' = 0
    /\ pollId' = <<"hex", 0>> /\ retries' = 0 /\ confirmed' = FALSE /\ result' = <<>>
    /\ delays' = <<>>
    /\ remoteCalls' = <<>>
    /\ UNCHANGED <<remoteVars, cachedConfig, reportedSpent>>
    /\ UNCHANGED sideVars

(***************************************************************************)
(* relayer.ts: getRelayerConfig, then the fee check of prepareWithdraw.    *)
(***************************************************************************)
FeeCheck(cfg) ==
    LET feeInLamports == FeeInLamports(arg, cfg)
        amountAfterFee == arg - feeInLamports
    IN /\ fee' = [feeInLamports |-> feeInLamports,
                  amountAfterFee |-> amountAfterFee]
       /\ IF amountAfterFee <= 0
          THEN Throw("Amount too low after fees")
          ELSE pc' = "treeState" /\ error' = error

GetRelayerConfig ==
    /\ pc = "config"
    /\ \/ /\ cachedConfig # <<>>
          /\ FeeCheck(cachedConfig[1])
          /\ UNCHANGED <<cachedConfig, remoteCalls>>
       \/ /\ cachedConfig = <<>>
          /\ Called("config", "ok")
          /\ cachedConfig' = <<remoteConfig>>
          /\ FeeCheck(remoteConfig)
       \/ /\ cachedConfig = <<>>
          /\ Called("config", "error")
          /\ Throw("Failed to get relayer config")
          /\ UNCHANGED <<cachedConfig, fee>>
    /\ UNCHANGED <<kind, arg, returned, remoteVars, reportedSpent, reconVars, submitVars>>
    /\ UNCHANGED <<treeState, inputs, outputAmount, merklePaths, outputs, extAmount>>
    /\ UNCHANGED sideVars

(***************************************************************************)
(* relayer.ts: queryTreeState, as awaited by the prepare operations.       *)
(***************************************************************************)
QueryTreeState ==
    /\ pc = "treeState"
    /\ \/ /\ Called("merkle/root", "ok")
          /\ treeState' = TreeStateNow
          /\ pc' = "fetchPage" /\ error' = error
       \/ /\ Called("merkle/root", "error")
          /\ Throw("Failed to query tree state")
          /\ UNCHANGED treeState
    /\ UNCHANGED <<kind, arg, returned, remoteVars, reportedSpent, cachedConfig, reconVars, submitVars>>
    /\ UNCHANGED <<fee, inputs, outputAmount, merklePaths, outputs, extAmount>>
    /\ UNCHANGED sideVars

(***************************************************************************)
(* utxo.ts: getUtxos, one action per await of its loop.                    *)
(***************************************************************************)
\* getUtxos returns valid: getBalance sums it, a prepare operation goes on.
ReturnUtxos(valid) ==
    IF kind = "getBalance"
    THEN /\ pc' = "done"
         /\ returned' = <<[lamports |-> GetBalanceFromUtxos(valid)]>>
    ELSE pc' = "select" /\ returned' = returned

\* the end of one iteration: stop on !data.hasMore, else advance the offset
LoopTail(valid) ==
    IF ~page.hasMore
    THEN ReturnUtxos(valid) /\ offset' = offset
    ELSE /\ offset' = NextOffset(offset, page.encrypted_outputs)
         /\ pc' = "fetchPage" /\ returned' = returned

FetchUtxoRange ==
    /\ pc = "fetchPage"
    /\ \/ LET end == offset + FETCH_UTXOS_GROUP_SIZE
              data == RangeResponse(offset, end)
          IN /\ Called("utxos/range", "ok")
             /\ page' = data
             /\ fetches' = Append(fetches,
                    [start |-> offset, end |-> end,
                     count |-> Len(data.encrypted_outputs),
                     logLen |-> Len(ledger)])
             /\ IF Len(data.encrypted_outputs) = 0
                THEN ReturnUtxos(validUtxos)
                ELSE pc' = "decrypt" /\ returned' = returned
             /\ error' = error
       \/ /\ Called("utxos/range", "error")
          /\ Throw("Failed to fetch UTXOs")
          /\ UNCHANGED <<page, fetches, returned>>
    /\ UNCHANGED <<kind, arg, remoteVars, reportedSpent, cachedConfig, prepVars, submitVars>>
    /\ UNCHANGED <<offset, decrypted, validUtxos, examined, lastCheck>>
    /\ UNCHANGED sideVars

\* decryptOutputs and, when nothing non-zero decrypted, the rest of the
\* iteration.
DecryptOutputs ==
    /\ pc = "decrypt"
    /\ LET results == DecryptResults(page.encrypted_outputs)
           indices == [i \in 1..Len(results) |-> IndexOfCt(results[i].encryptedOutput)]
           updated == UpdateIndices(results, indices)
       IN \/ /\ examined' = examined \o [i \in 1..Len(page.encrypted_outputs) |->
                                            page.encrypted_outputs[i].ct]
             /\ IF Len(results) > 0
                THEN Called("utxos/indices", "ok") /\ decrypted' = updated
                ELSE UNCHANGED remoteCalls /\ decrypted' = results
             /\ IF Len(NonZeroUtxos(decrypted')) > 0
                THEN pc' = "spentCheck" /\ UNCHANGED <<offset, returned>>
                ELSE LoopTail(validUtxos)
             /\ error' = error
          \/ /\ Len(results) > 0
             /\ Called("utxos/indices", "error")
             /\ Throw("Failed to fetch UTXO indices")
             /\ UNCHANGED <<examined, decrypted, offset, returned>>
    /\ UNCHANGED <<kind, arg, remoteVars, reportedSpent, cachedConfig, prepVars, submitVars>>
    /\ UNCHANGED <<page, validUtxos, fetches, lastCheck>>
    /\ UNCHANGED sideVars

\* areUtxosSpent on the non-zero UTXOs of the page, the push of the unspent
\* ones, and the rest of the iteration.
AreUtxosSpent ==
    /\ pc = "spentCheck"
    /\ LET utxosToCheck == NonZeroUtxos(decrypted)
           allPDAs == AllPDAs(utxosToCheck)
           spentFlags == SpentFlags(utxosToCheck, allPDAs, AccountsExist(allPDAs))
       IN \/ /\ Called("getMultipleAccountsInfo", "ok")
             /\ validUtxos' = validUtxos \o Unspent(utxosToCheck, spentFlags)
             /\ lastCheck' = [utxos |-> utxosToCheck, accounts |-> spentSet,
                              flags |-> spentFlags]
             /\ reportedSpent' = reportedSpent \cup
                    {NullifierOf(utxosToCheck[i]) :
                        i \in {j \in 1..Len(utxosToCheck) : spentFlags[j]}}
             /\ LoopTail(validUtxos')
             /\ error' = error
          \/ /\ Called("getMultipleAccountsInfo", "error")
             /\ Throw("failed to get info about accounts")
             /\ UNCHANGED <<validUtxos, offset, returned, lastCheck, reportedSpent>>
    /\ UNCHANGED <<kind, arg, remoteVars, cachedConfig, prepVars, submitVars>>
    /\ UNCHANGED <<page, decrypted, examined, fetches>>
    /\ UNCHANGED sideVars

(***************************************************************************)
(* privacy-cash.ts: the prepare operations after getUtxos.                 *)
(***************************************************************************)
\* Input selection and the output amount: the code between the return of
\* getUtxos and the first fetchMerkleProof.
SelectInputs ==
    /\ pc = "select"
    /\ \/ /\ kind \in DepositKinds
          /\ LET ins == DepositInputs(validUtxos, MintOf(kind))
             IN /\ inputs' = ins
                /\ outputAmount' =
                       DepositOutputAmount(validUtxos, ins, Amount(kind, arg))
                /\ IF NeedsMerkleProof(kind, validUtxos, ins, 1)
                   THEN merklePaths' = <<>> /\ pc' = "merkle"
                   ELSE merklePaths' = <<ZeroPath, ZeroPath>> /\ pc' = "prove"
                /\ error' = error
       \/ /\ kind = "prepareWithdraw"
          /\ Len(validUtxos) = 0
          /\ Throw("No balance available")
          /\ UNCHANGED <<inputs, outputAmount, merklePaths>>
       \/ /\ kind = "prepareWithdraw"
          /\ Len(validUtxos) > 0
          /\ LET ins == WithdrawInputs(validUtxos)
                 totalInputAmount == ins[1].amount + ins[2].amount
             IN /\ inputs' = ins
                /\ IF totalInputAmount < arg
                   THEN /\ Throw("Insufficient balance")
                        /\ UNCHANGED <<outputAmount, merklePaths>>
                   ELSE /\ outputAmount' = ChangeAmount(totalInputAmount,
                                fee.amountAfterFee, fee.feeInLamports)
                        /\ merklePaths' = <<>>
                        /\ pc' = "merkle" /\ error' = error
    \* the locals of getUtxos are gone; validUtxos lives on as existingUtxos
    /\ offset' = 0 /\ page' = NoPage /\ decrypted' = <<>>
    /\ examined' = <<>> /\ fetches' = <<>> /\ lastCheck' = NoCheck
    /\ UNCHANGED <<kind, arg, returned, remoteVars, reportedSpent, cachedConfig, validUtxos>>
    /\ UNCHANGED <<fee, treeState, outputs, extAmount, submitVars, remoteCalls>>
    /\ UNCHANGED sideVars

\* Variant of MerkleProofOf: the remote serves paths of the empty tree.
MerkleProofOfEmptyTree(commitment) == <<"path", commitment, NoTree.root>>

\* GET merkle/proof/{commitment}: the remote's path for the commitment in its
\* tree as it is when the request is served
MerkleProofOf(commitment) == <<"path", commitment, TreeStateNow.root>>

\* relayer.ts: fetchMerkleProof for the next input that needs one; an input
\* that needs none gets the zero path.
FetchMerkleProof ==
    /\ pc = "merkle"
    /\ LET i == Len(merklePaths) + 1
           withCommitment == [inputs EXCEPT ![i] = GetCommitment(@)]
           path == MerkleProofOf(Head(withCommitment[i].commitment))
           paths == IF i = 1 /\ ~NeedsMerkleProof(kind, validUtxos, inputs, 2)
                    THEN <<path, ZeroPath>>
                    ELSE Append(merklePaths, path)
       IN \/ /\ Called("merkle/proof", "ok")
             /\ inputs' = withCommitment
             /\ merklePaths' = paths
             /\ pc' = (IF Len(paths) = 2 THEN "prove" ELSE "merkle")
             /\ error' = error
          \/ /\ Called("merkle/proof", "error")
             /\ Throw("Failed to fetch merkle proof")
             /\ inputs' = withCommitment
             /\ UNCHANGED merklePaths
    /\ UNCHANGED <<kind, arg, returned, remoteVars, reportedSpent, cachedConfig, reconVars>>
    /\ UNCHANGED <<fee, treeState, outputAmount, outputs, extAmount, submitVars>>
    /\ UNCHANGED sideVars

\* what a prepare operation hands back: the amounts of the transaction, the
\* public amount of its proof, and the first encrypted output in the encoding
\* of the response
Prepared(k, ext, feeAmount) ==
    [extAmount |-> ext, fee |-> feeAmount,
     publicAmount |-> PublicAmountForCircuit(k, ext, feeAmount),
     encryptedOutput1 |->
        <<IF k = "prepareWithdraw" THEN "base64" ELSE "hex", "output1">>]

\* Outputs, nullifiers, ext data and generateProof, then the response.
GenerateProof ==
    /\ pc = "prove"
    /\ outputs' = Outputs(outputAmount, treeState.nextIndex, MintOf(kind))
    /\ inputs' = [i \in 1..Len(inputs) |-> GetNullifier(inputs[i])]
    /\ extAmount' = ExtAmount(kind, Amount(kind, arg), fee.amountAfterFee)
    /\ \/ /\ pc' = "done" /\ error' = error
          /\ returned' = <<Prepared(kind, extAmount',
                 IF kind = "prepareWithdraw" THEN fee.feeInLamports ELSE DepositFee)>>
       \/ /\ Throw("Proof generation failed")
          /\ UNCHANGED returned
    /\ UNCHANGED <<kind, arg, remoteVars, reportedSpent, cachedConfig, reconVars>>
    /\ UNCHANGED <<fee, treeState, outputAmount, merklePaths, submitVars, remoteCalls>>
    /\ UNCHANGED sideVars

(***************************************************************************)
(* privacy-cash.ts: submitDeposit and submitWithdraw.                      *)
(***************************************************************************)
\* Variant of Relay that posts again after a non-2xx answer.
RelayAgain ==
    /\ pc = "relay"
    /\ \/ \E success \in BOOLEAN :
            /\ Called(IF kind = "submitDeposit" THEN "deposit" ELSE "withdraw", "ok")
            /\ result' = <<[signature |-> "sig", success |-> success]>>
            /\ relayed' = (relayed \/ success)
            /\ pc' = "poll"
       \/ /\ Called(IF kind = "submitDeposit" THEN "deposit" ELSE "withdraw", "error")
          /\ pc' = "relay"
          /\ UNCHANGED <<result, relayed>>
    /\ UNCHANGED <<kind, arg, error, returned, ledger, ledgerMint, spentSet, remoteConfig>>
    /\ UNCHANGED reportedSpent
    /\ UNCHANGED <<cachedConfig, reconVars, prepVars, pollId, retries, confirmed, delays>>
    /\ UNCHANGED sideVars

\* relayDeposit / submitWithdraw of relayer.ts: one POST.
Relay ==
    /\ pc = "relay"
    /\ \/ \E success \in BOOLEAN :
            /\ Called(IF kind = "submitDeposit" THEN "deposit" ELSE "withdraw", "ok")
            /\ result' = <<[signature |-> "sig", success |-> success]>>
            /\ relayed' = (relayed \/ success)
            /\ pc' = "poll" /\ error' = error
       \/ /\ Called(IF kind = "submitDeposit" THEN "deposit" ELSE "withdraw", "error")
          /\ Throw(IF kind = "submitDeposit" THEN "Deposit relay failed"
                   ELSE "Withdraw failed")
          /\ UNCHANGED <<result, relayed>>
    /\ UNCHANGED <<kind, arg, returned, ledger, ledgerMint, spentSet, remoteConfig>>
    /\ UNCHANGED reportedSpent
    /\ UNCHANGED <<cachedConfig, reconVars, prepVars, pollId, retries, confirmed, delays>>
    /\ UNCHANGED sideVars

\* Variant of KeepPolling that goes on until the retries are used up.
KeepPollingToTheEnd(isConfirmed, n) == n < POLL_RETRIES

\* while (!confirmed && retries < 10)
KeepPolling(isConfirmed, n) == ~isConfirmed /\ n < POLL_RETRIES

\* await new Promise(r => setTimeout(r, 2000))
POLL_DELAY_MS == 2000

\* One turn of while (!confirmed && retries < 10): the delay, checkUtxoExists,
\* then the loop condition again and, when it fails, return result.
PollConfirmation ==
    /\ pc = "poll"
    /\ KeepPolling(confirmed, retries)
    /\ delays' = Append(delays, POLL_DELAY_MS)
    /\ \/ /\ Called("utxos/check", IF UtxoExists(pollId) THEN "exists" ELSE "absent")
          /\ confirmed' = UtxoExists(pollId)
          /\ retries' = retries + 1
          /\ IF KeepPolling(confirmed', retries')
             THEN pc' = "poll" /\ returned' = returned
             ELSE pc' = "done" /\ returned' = result
          /\ error' = error
       \/ /\ Called("utxos/check", "error")
          /\ Throw("Failed to check UTXO")
          /\ UNCHANGED <<confirmed, retries, returned>>
    /\ UNCHANGED <<kind, arg, remoteVars, reportedSpent, cachedConfig, reconVars, prepVars>>
    /\ UNCHANGED <<pollId, result>>
    /\ UNCHANGED sideVars

(***************************************************************************)
(* The calls of the HTTP layer.                                            *)
(***************************************************************************)
\* token amounts a caller passes to prepareSplDeposit: 4/3 and 2 tokens
SplAmounts == {[num |-> 4, den |-> 3], [num |-> 2, den |-> 1]}

PrepareDeposit ==
    /\ ledgerMint = SOL_MINT_SHORT
    /\ \E lamports \in Deposits : Enter("prepareDeposit", lamports, "treeState")
    /\ UNCHANGED pollId

PrepareSplDeposit ==
    /\ ledgerMint = SPL_MINT
    /\ \E amount \in SplAmounts : Enter("prepareSplDeposit", amount, "treeState")
    /\ UNCHANGED pollId

PrepareWithdraw ==
    /\ ledgerMint = SOL_MINT_SHORT
    /\ \E lamports \in Withdrawals : Enter("prepareWithdraw", lamports, "config")
    /\ UNCHANGED pollId

GetBalance ==
    /\ Enter("getBalance", 0, "fetchPage")
    /\ UNCHANGED pollId

\* routes/deposit.ts hands over the hex string of the prepare response
SubmitDeposit ==
    /\ Enter("submitDeposit", 0, "relay")
    /\ pollId' = <<"hex", 0>>

\* routes/withdraw.ts hands over withdrawParams.encryptedOutput1 (base64)
SubmitWithdraw ==
    /\ ledgerMint = SOL_MINT_SHORT
    /\ Enter("submitWithdraw", 0, "relay")
    /\ pollId' = <<"base64", 0>>

(***************************************************************************)
(* Spec: the prepare operations against a log other actors append to.      *)
(***************************************************************************)
Next ==
    \/ AppendOutput
    \/ PrepareDeposit \/ PrepareSplDeposit \/ PrepareWithdraw
    \/ GetRelayerConfig \/ QueryTreeState
    \/ FetchUtxoRange \/ DecryptOutputs \/ AreUtxosSpent
    \/ SelectInputs \/ FetchMerkleProof \/ GenerateProof
    \/ Return

Spec == Init /\ [][Next]_vars

(***************************************************************************)
(* SpecRecon: reconstruction (getBalance -> getUtxos) against a log that   *)
(* grows and a spent-set that grows.                                       *)
(***************************************************************************)
InitRecon == InitRemote({SOL_MINT_SHORT},
                 {[rateNum |-> 0, rateDen |-> 1, rentNum |-> 0, rentDen |-> 1]})

NextRecon ==
    \/ AppendOutput \/ SpendOnChain
    \/ GetBalance
    \/ FetchUtxoRange \/ DecryptOutputs \/ AreUtxosSpent
    \/ Return

SpecRecon == InitRecon /\ [][NextRecon]_vars

\* The log grows by an output of another owner or by a non-zero output of
\* the caller: the two kinds of entry the loop treats differently.
AppendEither ==
    /\ Len(ledger) < MaxLog
    /\ \E e \in {Entry(Len(ledger) + 1, "other", 0, 0),
                  Entry(Len(ledger) + 1, "me", 1, Len(ledger))} :
          ledger' = Append(ledger, e)
    /\ UNCHANGED <<ledgerMint, spentSet, relayed, remoteConfig, cachedConfig, reportedSpent>>
    /\ UNCHANGED <<frameVars, reconVars, prepVars, submitVars, remoteCalls>>
    /\ UNCHANGED sideVars

NextReconLive ==
    \/ AppendEither \/ SpendOnChain
    \/ GetBalance
    \/ FetchUtxoRange \/ DecryptOutputs \/ AreUtxosSpent
    \/ Return

\* the step the loop of getUtxos is waiting to take (one at a time)
LoopStep == FetchUtxoRange \/ DecryptOutputs \/ AreUtxosSpent

\* getUtxos under the scheduling of the event loop: every request the loop
\* awaits is answered (with a response or an error) and the loop resumes.
SpecReconLive == InitRecon /\ [][NextReconLive]_vars /\ WF_vars(LoopStep)

(***************************************************************************)
(* SpecSubmit: submitDeposit / submitWithdraw and the landing of relayed   *)
(* transactions.                                                           *)
(***************************************************************************)
NextSubmit ==
    \/ AppendOutput \/ LandRelayed
    \/ SubmitDeposit \/ SubmitWithdraw
    \/ Relay \/ PollConfirmation
    \/ Return

SpecSubmit == InitRecon /\ [][NextSubmit]_vars

\* The same under the scheduling of the code: an awaited delay and an awaited
\* existence check complete, so a poll that can take a turn takes it.
SpecSubmitLive == InitRecon /\ [][NextSubmit]_vars /\ WF_vars(PollConfirmation)

(***************************************************************************)
(* SpecCalls: every call of the service, one after the other, against a    *)
(* log that only changes by the landing of relayed transactions.           *)
(***************************************************************************)
InitCalls ==
    /\ ledger \in {<<>>,
                    <<Entry(1, "me", 1, 0), Entry(2, "other", 0, 0)>>,
                    <<Entry(1, "me", 2, 0), Entry(2, "me", 1, 1)>>}
    /\ ledgerMint \in {SOL_MINT_SHORT, SPL_MINT}
    /\ spentSet = {}
    /\ relayed = FALSE
    /\ remoteConfig \in FeeConfigs
    /\ cachedConfig = <<>>
    /\ reportedSpent = {}
    /\ IdleFrame /\ SideIdle

NextCalls ==
    \/ LandRelayed
    \/ PrepareDeposit \/ PrepareSplDeposit \/ PrepareWithdraw \/ GetBalance
    \/ SubmitDeposit \/ SubmitWithdraw
    \/ GetRelayerConfig \/ QueryTreeState
    \/ FetchUtxoRange \/ DecryptOutputs \/ AreUtxosSpent
    \/ SelectInputs \/ FetchMerkleProof \/ GenerateProof
    \/ Relay \/ PollConfirmation
    \/ Return

SpecCalls == InitCalls /\ [][NextCalls]_vars

(***************************************************************************)
(* Properties.                                                             *)
(***************************************************************************)
SubmitKinds == {"submitDeposit", "submitWithdraw"}

\* the result of reconstruction a prepare operation selects from
Selected(u) == \E j \in 1..Len(inputs) : inputs[j].blinding = u.blinding

\* C1: with two or more unspent UTXOs, the two inputs a prepare operation
\* chose are the two largest: no unselected unspent UTXO holds more than a
\* selected one, whatever the order of the ledger.
C1_TwoLargestSelected ==
    (kind \in PrepareKinds /\ inputs # <<>> /\ Len(validUtxos) >= 2) =>
        \A i \in 1..Len(validUtxos) :
            ~Selected(validUtxos[i]) =>
                \A j \in 1..Len(inputs) :
                    validUtxos[i].amount <= inputs[j].amount

\* C2 (as amended): a prepareWithdraw that succeeded, with input total T,
\* fee F and payout P = requested - F, has change T - P - F, a zero second
\* output and signed external amount -P, which is what it hands back.
C2_ChangeAndExtAmount ==
    (kind = "prepareWithdraw" /\ pc = "done") =>
        LET T == inputs[1].amount + inputs[2].amount
            F == fee.feeInLamports
            P == arg - F
        IN /\ outputs[1].amount = T - P - F
           /\ outputs[2].amount = 0
           /\ extAmount = 0 - P
           /\ returned[1].extAmount = 0 - P
           /\ returned[1].fee = F

\* C2 as stated: change T - R - F and signed external amount -R for the
\* requested amount R.
C2_AsStated ==
    (kind = "prepareWithdraw" /\ pc = "done") =>
        LET T == inputs[1].amount + inputs[2].amount
            F == fee.feeInLamports
        IN /\ outputs[1].amount = T - arg - F
           /\ extAmount = 0 - arg

\* a withdrawal that succeeded with a fee charged
C2_Witness ==
    /\ kind = "prepareWithdraw" /\ pc = "done"
    /\ fee.feeInLamports > 0

FeeComputed ==
    kind = "prepareWithdraw" /\ pc # "config" /\ cachedConfig # <<>>

\* C4 (as amended): prepareWithdraw of A computes fee = floor(A*r + f), f
\* the rent fee in lamports, and payout = A - fee; with payout <= 0 it
\* fails with "Amount too low after fees" having queried no tree state,
\* fetched no page, generated no proof and returned nothing.
C4_FeeAndTooLow ==
    FeeComputed =>
        LET cfg == cachedConfig[1]
            den == cfg.rateDen * cfg.rentDen
            num == arg * cfg.rateNum * cfg.rentDen + cfg.rentNum * cfg.rateDen
            F == fee.feeInLamports
        IN /\ F * den <= num /\ num < (F + 1) * den
           /\ fee.amountAfterFee = arg - F
           /\ (arg - F <= 0) =>
                /\ pc = "failed" /\ error = "Amount too low after fees"
                /\ \A i \in 1..Len(remoteCalls) : remoteCalls[i][1] = "config"
                /\ treeState = NoTree /\ fetches = <<>> /\ validUtxos = <<>>
                /\ inputs = <<>> /\ outputs = <<>> /\ returned = <<>>
           /\ (arg - F > 0) => error # "Amount too low after fees"

\* C4 as stated: fee = floor(A*r) + f.
C4_AsStated ==
    FeeComputed =>
        LET cfg == cachedConfig[1]
        IN fee.feeInLamports * cfg.rentDen =
              ((arg * cfg.rateNum) \div cfg.rateDen) * cfg.rentDen + cfg.rentNum

\* a withdrawal refused because a non-zero fee eats the amount
C4_Witness ==
    /\ kind = "prepareWithdraw" /\ pc = "failed"
    /\ error = "Amount too low after fees"
    /\ arg > 0 /\ fee.feeInLamports > 0

\* what the two largest of the UTXOs hold together
TwoLargestTotal(utxos) ==
    IF Len(utxos) = 0 THEN 0
    ELSE IF Len(utxos) = 1 THEN utxos[1].amount
    ELSE LET pairs == {p \in (1..Len(utxos)) \X (1..Len(utxos)) : p[1] # p[2]}
             sums == {utxos[p[1]].amount + utxos[p[2]].amount : p \in pairs}
         IN CHOOSE t \in sums : \A x \in sums : x <= t

\* the messages of the InsufficientBalance failure: no UTXO at all, or the
\* two largest not enough
InsufficientBalance == {"No balance available", "Insufficient balance"}

\* prepareWithdraw has taken its balance decision
SelectionRan ==
    /\ kind = "prepareWithdraw"
    /\ \/ pc \in {"merkle", "prove", "done"}
       \/ /\ pc = "failed"
          /\ error \in InsufficientBalance
                \cup {"Failed to fetch merkle proof", "Proof generation failed"}

\* C5: prepareWithdraw, at its balance decision, fails with
\* InsufficientBalance exactly when the two largest unspent UTXOs together
\* hold less than the requested amount; then no Merkle path is fetched, no
\* proof generated and nothing returned; a success has change >= 0.
C5_InsufficientBalance ==
    SelectionRan =>
        LET short == TwoLargestTotal(validUtxos) < arg
        IN /\ (pc = "failed" /\ error \in InsufficientBalance) <=> short
           /\ short =>
                /\ merklePaths = <<>> /\ outputs = <<>> /\ returned = <<>>
                /\ \A i \in 1..Len(remoteCalls) : remoteCalls[i][1] # "merkle/proof"
           /\ pc = "done" => (returned # <<>> /\ outputs[1].amount >= 0)

\* a withdrawal refused although the caller holds two or more UTXOs
C5_Witness ==
    /\ kind = "prepareWithdraw" /\ pc = "failed"
    /\ error = "Insufficient balance"
    /\ Len(validUtxos) >= 2

\* C6: once the relay has accepted the transaction (its answer is held in
\* result), submitDeposit / submitWithdraw do not fail: no outcome of the
\* confirmation poll turns the accepted submission into a failure.
C6_AcceptedNeverFails ==
    (kind \in SubmitKinds /\ result # <<>>) => pc # "failed"

\* the relay requests among the remote calls of the call in flight
RelayRequests ==
    {i \in 1..Len(remoteCalls) : remoteCalls[i][1] \in {"deposit", "withdraw"}}

\* C7: a submit call sends the relay request exactly once; a non-2xx relay
\* answer is the last remote call of the operation and fails it (no
\* resubmission, no polling); in every operation, a remote call made again
\* after a negative answer is the existence check that answered "absent".
C7_RelayOnceNoRetry ==
    /\ Cardinality(RelayRequests) <= 1
    /\ (kind \in SubmitKinds /\ pc \in {"poll", "done", "failed"}) =>
            Cardinality(RelayRequests) = 1
    /\ \A i \in RelayRequests :
            remoteCalls[i][2] = "error" =>
                /\ i = Len(remoteCalls)
                /\ pc = "failed"
                /\ error \in {"Deposit relay failed", "Withdraw failed"}
                /\ result = <<>> /\ returned = <<>>
    /\ \A i \in 1..Len(remoteCalls) : \A j \in (i + 1)..Len(remoteCalls) :
            (remoteCalls[i][2] \in {"error", "absent"}
                /\ remoteCalls[j][1] = remoteCalls[i][1])
            => remoteCalls[i] = <<"utxos/check", "absent">>

\* a submitDeposit whose relay request was refused
C7_Witness ==
    /\ kind = "submitDeposit" /\ pc = "failed"
    /\ error = "Deposit relay failed"
    /\ remoteCalls = <<<<"deposit", "error">>>>

\* ledger entry i is the caller's, non-zero, and no nullifier account of it
\* exists
OwnedUnspent(i) ==
    /\ ledger[i].owner = "me" /\ ledger[i].amount > 0
    /\ NullifierPDAs(LedgerUtxo(i)) \cap spentSet = {}

\* C8: getUtxos fetches windows that start at 0 and each start where the
\* entries of the one before ended, and examines each entry once, in log
\* order; when it returns it has examined every entry the log held at its
\* last fetch, and every owned unspent one of them is in its result.
C8_Paging ==
    /\ fetches # <<>> => fetches[1].start = 0
    /\ \A k \in 1..(Len(fetches) - 1) :
            fetches[k + 1].start = fetches[k].start + fetches[k].count
    /\ Len(examined) <= Len(ledger)
    /\ \A i \in 1..Len(examined) : examined[i] = ledger[i].ct
    /\ (kind = "getBalance" /\ pc = "done") =>
            /\ Len(examined) = fetches[Len(fetches)].logLen
            /\ \A i \in 1..Len(examined) :
                    OwnedUnspent(i) =>
                        \E j \in 1..Len(validUtxos) :
                            validUtxos[j].blinding = <<"ct", ledger[i].ct>>

\* a reconstruction that took more than one page to examine three entries
C8_Witness ==
    /\ kind = "getBalance" /\ pc = "done"
    /\ Len(fetches) >= 2 /\ Len(examined) = 3

\* C9: the latest areUtxosSpent gave one flag per input UTXO, in input
\* order, TRUE exactly when one of the UTXO's two nullifier addresses
\* existed; a UTXO some check reported spent is flagged by it too, and
\* every UTXO ever reported spent has a nullifier address that exists.
C9_SpentFlags ==
    /\ Len(lastCheck.flags) = Len(lastCheck.utxos)
    /\ \A i \in 1..Len(lastCheck.utxos) :
            /\ lastCheck.flags[i] <=>
                    (NullifierPDAs(lastCheck.utxos[i]) \cap lastCheck.accounts # {})
            /\ NullifierOf(lastCheck.utxos[i]) \in reportedSpent => lastCheck.flags[i]
    /\ \A n \in reportedSpent :
            \E prefix \in {"nullifier0", "nullifier1"} :
                NullifierPDA(prefix, n) \in spentSet

\* a check of two UTXOs: one spent through its second address only, one
\* unspent
C9_Witness ==
    /\ Len(lastCheck.utxos) = 2
    /\ \E i, j \in 1..2 :
          /\ lastCheck.flags[i] /\ ~lastCheck.flags[j]
          /\ NullifierPDAs(lastCheck.utxos[i]) \cap lastCheck.accounts
                = {NullifierPDA("nullifier1", NullifierOf(lastCheck.utxos[i]))}

ReconErrorOf(endpoint) ==
    CASE endpoint = "utxos/range" -> "Failed to fetch UTXOs"
      [] endpoint = "utxos/indices" -> "Failed to fetch UTXO indices"
      [] endpoint = "getMultipleAccountsInfo" -> "failed to get info about accounts"
      [] OTHER -> "none"

\* ledger entries holding the ciphertext ct
EntriesOf(ct) == {k \in 1..Len(ledger) : ledger[k].ct = ct}

\* C11: an entry that does not decrypt under the caller's keys is in no
\* decryption result and no collected UTXO, and getUtxos fails only when a
\* page fetch, index lookup or spent-set lookup failed: then with that
\* call's error, as its last remote call, and with nothing returned.
C11_SkipAndPropagate ==
    /\ \A i \in 1..Len(decrypted) :
            \A k \in EntriesOf(decrypted[i].encryptedOutput) : Decrypts(ledger[k])
    /\ \A j \in 1..Len(validUtxos) :
            \A k \in EntriesOf(validUtxos[j].blinding[2]) : Decrypts(ledger[k])
    /\ pc = "failed" =>
            /\ remoteCalls # <<>>
            /\ remoteCalls[Len(remoteCalls)][2] = "error"
            /\ error = ReconErrorOf(remoteCalls[Len(remoteCalls)][1])
            /\ returned = <<>>
    /\ \A i \in 1..(Len(remoteCalls) - 1) : remoteCalls[i][2] # "error"

\* a reconstruction that returned a UTXO after examining an entry that does
\* not decrypt
C11_Witness ==
    /\ kind = "getBalance" /\ pc = "done"
    /\ validUtxos # <<>>
    /\ \E i \in 1..Len(examined) : ~Decrypts(ledger[i])

(***************************************************************************)
(* The Utxo class on its own: an object is constructed, its public fields  *)
(* are assigned, and getCommitment / getNullifier are called on it.        *)
(***************************************************************************)
UtxoAmounts == {0, 1}
UtxoBlindings == {<<"ct", 1>>, <<"ct", 2>>}
UtxoIndices == {0, 1}

\* new Utxo(params): an absent field is <<>>; blinding is the value used
\* (params.blinding, or the random one drawn when it is absent)
UtxoNew(params, blinding) ==
    Utxo(IF params.amount # <<>> THEN params.amount[1] ELSE 0,
         params.keypair,
         blinding,
         IF params.index # <<>> THEN params.index[1] ELSE 0,
         IF params.mintAddress # <<>> THEN params.mintAddress[1] ELSE SOL_MINT_SHORT,
         IF params.version # <<>> THEN params.version[1] ELSE "v2")

UtxoParams ==
    [amount : {<<>>} \cup {<<a>> : a \in UtxoAmounts},
     keypair : {"v2"},
     blinding : {<<>>} \cup {<<b>> : b \in UtxoBlindings},
     index : {<<>>} \cup {<<i>> : i \in UtxoIndices},
     mintAddress : {<<>>, <<SPL_MINT>>},
     version : {<<>>}]

\* a call on the object: what it returned, the fields it was called on, and
\* whether the object had been given a tree position by then
UtxoReturn(op, value, u, positioned) ==
    [op |-> op, value |-> value, at |-> u, positioned |-> positioned]

\* utxo = new Utxo({...})
ConstructUtxo ==
    /\ \E params \in UtxoParams :
       \E blinding \in (IF params.blinding # <<>> THEN {params.blinding[1]}
                        ELSE {<<"rnd", 1>>}) :
           /\ utxoObj' = <<[obj |-> UtxoNew(params, blinding),
                            positioned |-> params.index # <<>>]>>
    /\ utxoCall' = NoCall
    /\ UNCHANGED <<mainVars, cfgVars, httpVars, encVars, txVars>>

\* utxo.index = i (as getUtxos does with the true index), or an assignment
\* to another public field
AssignUtxoField ==
    /\ utxoObj # <<>>
    /\ LET o == utxoObj[1]
       IN \/ \E i \in UtxoIndices :
                utxoObj' = <<[obj |-> [o.obj EXCEPT !.index = i], positioned |-> TRUE]>>
          \/ \E a \in UtxoAmounts :
                utxoObj' = <<[o EXCEPT !.obj.amount = a]>>
          \/ \E b \in UtxoBlindings :
                utxoObj' = <<[o EXCEPT !.obj.blinding = b]>>
          \/ \E m \in {SOL_MINT_SHORT, SPL_MINT} :
                utxoObj' = <<[o EXCEPT !.obj.mintAddress = m]>>
    /\ UNCHANGED utxoCall
    /\ UNCHANGED <<mainVars, cfgVars, httpVars, encVars, txVars>>

\* await utxo.getCommitment()
CallGetCommitment ==
    /\ utxoObj # <<>>
    /\ LET o == utxoObj[1]
           after == GetCommitment(o.obj)
       IN /\ utxoObj' = <<[o EXCEPT !.obj = after]>>
          /\ utxoCall' = UtxoReturn("getCommitment", after.commitment[1], o.obj, o.positioned)
    /\ UNCHANGED <<mainVars, cfgVars, httpVars, encVars, txVars>>

\* await utxo.getNullifier()
CallGetNullifier ==
    /\ utxoObj # <<>>
    /\ LET o == utxoObj[1]
           after == GetNullifier(o.obj)
       IN /\ utxoObj' = <<[o EXCEPT !.obj = after]>>
          /\ utxoCall' = UtxoReturn("getNullifier", after.nullifier[1], o.obj, o.positioned)
    /\ UNCHANGED <<mainVars, cfgVars, httpVars, encVars, txVars>>

NextUtxo ==
    \/ ConstructUtxo
    \/ AssignUtxoField
    \/ CallGetCommitment
    \/ CallGetNullifier

SpecUtxo == InitRecon /\ [][NextUtxo]_vars

(***************************************************************************)
(* relayer.ts: getRelayerConfig called by concurrent requests.  A call     *)
(* runs up to its first await, the remote answers, the call resumes; the   *)
(* relayer can change its fee configuration at any time.                   *)
(***************************************************************************)
cfgRest ==
    <<ledger, ledgerMint, spentSet, relayed, kind, pc, arg, error, returned,
      reconVars, reportedSpent, prepVars, submitVars, remoteCalls, utxoVars,
      httpVars, encVars, txVars>>

\* Variant of CacheHit: the cache is never looked at.
CacheMiss(cache) == FALSE

\* if (cachedConfig) ...
CacheHit(cache) == cache # <<>>

\* getRelayerConfig() up to its first await: the cached value, or the request
CallGetRelayerConfig(c) ==
    /\ cfgCallers[c].pc = "idle"
    /\ IF CacheHit(cachedConfig)
       THEN cfgCallers' = [cfgCallers EXCEPT ![c] =
                [NoCaller EXCEPT !.pc = "done", !.returned = cachedConfig]]
       ELSE cfgCallers' = [cfgCallers EXCEPT ![c] =
                [NoCaller EXCEPT !.pc = "fetch",
                    !.issued = IF cachedConfig = <<>> THEN "empty" ELSE "set"]]
    /\ UNCHANGED <<remoteConfig, cachedConfig, cfgFirst, cfgServed, cfgRest>>

\* await fetch(url): the remote answers with its configuration as it is
\* now, or with an error status
ConfigResponse(c) ==
    /\ cfgCallers[c].pc = "fetch"
    /\ \/ /\ cfgCallers' = [cfgCallers EXCEPT ![c].pc = "json",
                                              ![c].response = <<remoteConfig>>]
          /\ cfgServed' = cfgServed \cup {remoteConfig}
       \/ /\ cfgCallers' = [cfgCallers EXCEPT ![c].pc = "failed"]
          /\ UNCHANGED cfgServed
    /\ UNCHANGED <<remoteConfig, cachedConfig, cfgFirst, cfgRest>>

\* cachedConfig = await response.json(); return cachedConfig
ConfigParsed(c) ==
    /\ cfgCallers[c].pc = "json"
    /\ cachedConfig' = cfgCallers[c].response
    /\ cfgCallers' = [cfgCallers EXCEPT ![c].pc = "done",
                                       ![c].returned = cfgCallers[c].response]
    /\ cfgFirst' = (IF cfgFirst = <<>> THEN cfgCallers[c].response ELSE cfgFirst)
    /\ UNCHANGED <<remoteConfig, cfgServed, cfgRest>>

\* the caller takes the configuration or the error
ConfigReturn(c) ==
    /\ cfgCallers[c].pc \in {"done", "failed"}
    /\ cfgCallers' = [cfgCallers EXCEPT ![c] = NoCaller]
    /\ UNCHANGED <<remoteConfig, cachedConfig, cfgFirst, cfgServed, cfgRest>>

\* the relayer changes its fees
ChangeRemoteConfig ==
    /\ \E cfg \in FeeConfigs \ {remoteConfig} : remoteConfig' = cfg
    /\ UNCHANGED <<cachedConfig, cfgVars, cfgRest>>

NextConfig ==
    \/ \E c \in Callers : CallGetRelayerConfig(c)
    \/ \E c \in Callers : ConfigResponse(c)
    \/ \E c \in Callers : ConfigParsed(c)
    \/ \E c \in Callers : ConfigReturn(c)
    \/ ChangeRemoteConfig

SpecConfig == Init /\ [][NextConfig]_vars

\* C20: a fetch of the fee configuration is issued only while nothing is
\* cached, so none is issued once the first fetch has completed; the cache,
\* once set, always holds a configuration the remote answered with, the one
\* of the fetch that completed last, and stays what it was first set to as
\* long as the remote has answered with one configuration only; a call
\* returns the cached value it found or the response it parsed.
C20_CacheWrittenByFetches ==
    /\ (cachedConfig = <<>>) <=> (cfgFirst = <<>>)
    /\ \A c \in Callers :
          /\ cfgCallers[c].issued # "set"
          /\ cfgCallers[c].pc = "json" => cfgCallers[c].response[1] \in cfgServed
          /\ cfgCallers[c].pc = "done" => cfgCallers[c].returned[1] \in cfgServed
    /\ cachedConfig # <<>> => cachedConfig[1] \in cfgServed
    /\ Cardinality(cfgServed) <= 1 => cachedConfig = cfgFirst

\* C20 as stated: the cache never changes from the configuration obtained
\* first.
C20_AsStated == cfgFirst # <<>> => cachedConfig = cfgFirst

C20_Witness ==
    /\ cfgFirst # <<>>
    /\ \E c \in Callers : cfgCallers[c].pc = "done" /\ cfgCallers[c].issued = "no"
    /\ \E c \in Callers : cfgCallers[c].pc = "done" /\ cfgCallers[c].issued = "empty"

(***************************************************************************)
(* routes/deposit.ts, routes/withdraw.ts, routes/balance.ts: the handlers  *)
(* of POST /v1/deposit/prepare, /v1/withdraw/prepare and /v1/balance on a  *)
(* JSON object body.  A field of the body is a JavaScript value: absent    *)
(* (undefined), a number or a string.                                      *)
(***************************************************************************)
JsUndefined == [t |-> "undefined", n |-> 0, s |-> ""]
JsNum(n) == [t |-> "num", n |-> n, s |-> ""]
JsStr(s) == [t |-> "str", n |-> 0, s |-> s]

\* !v is false
Truthy(v) ==
    CASE v.t = "undefined" -> FALSE
      [] v.t = "num" -> v.n # 0
      [] v.t = "str" -> v.s # ""

\* the number a value converts to in a comparison, <<>> for NaN
ToNumber(v) ==
    CASE v.t = "num" -> <<v.n>>
      [] v.t = "str" /\ v.s \in {"", "0"} -> <<0>>
      [] v.t = "str" /\ v.s = "-1" -> <<0 - 1>>
      [] v.t = "str" /\ v.s = "1" -> <<1>>
      [] OTHER -> <<>>

\* amount <= 0
LeqZero(v) == ToNumber(v) # <<>> /\ ToNumber(v)[1] <= 0

Routes == {"deposit/prepare", "withdraw/prepare", "balance"}
BodyFields == {"publicKey", "signature", "amount", "recipientAddress", "mintAddress"}
TextValues == {JsUndefined, JsStr(""), JsStr("text")}
AmountValues ==
    {JsUndefined, JsNum(0 - 1), JsNum(0), JsNum(1), JsStr("0"), JsStr("1"), JsStr("abc")}
Bodies ==
    {b \in [BodyFields -> TextValues \cup AmountValues] :
        /\ b["amount"] \in AmountValues
        /\ \A f \in BodyFields \ {"amount"} : b[f] \in TextValues
        /\ b["mintAddress"] # JsStr("")}

\* Variant of RequiredFields: every route asks for what /v1/balance asks for.
RequiredFieldsOfBalance(route) == {"publicKey", "signature"}

\* the fields of the first test of a handler
RequiredFields(route) ==
    CASE route = "deposit/prepare" -> {"publicKey", "signature", "amount"}
      [] route = "withdraw/prepare" ->
            {"publicKey", "signature", "amount", "recipientAddress"}
      [] route = "balance" -> {"publicKey", "signature"}

MissingFieldsMessage(route) ==
    CASE route = "deposit/prepare" ->
            "Missing required fields: publicKey, signature, amount"
      [] route = "withdraw/prepare" ->
            "Missing required fields: publicKey, signature, amount, recipientAddress"
      [] route = "balance" -> "Missing required fields: publicKey, signature"

HttpResponse(status, message) == [status |-> status, error |-> message]

\* the handler up to its first await: a response, or the orchestrator call
HandleRequest ==
    /\ httpReq = <<>>
    /\ \E route \in Routes, body \in Bodies :
          /\ httpReq' = <<[route |-> route, body |-> body]>>
          /\ IF \E f \in RequiredFields(route) : ~Truthy(body[f])
             THEN /\ httpRes' = <<HttpResponse(400, MissingFieldsMessage(route))>>
                  /\ httpCalled' = <<>>
             ELSE IF route # "balance" /\ LeqZero(body["amount"])
             THEN /\ httpRes' = <<HttpResponse(400, "Amount must be positive")>>
                  /\ httpCalled' = <<>>
             ELSE IF route = "withdraw/prepare" /\ Truthy(body["mintAddress"])
             THEN /\ httpRes' = <<HttpResponse(501, "SPL withdrawal not yet implemented")>>
                  /\ httpCalled' = <<>>
             ELSE /\ httpRes' = <<>>
                  /\ httpCalled' =
                        <<CASE route = "balance" -> "getBalance"
                            [] route = "withdraw/prepare" -> "prepareWithdraw"
                            [] route = "deposit/prepare" ->
                                 IF Truthy(body["mintAddress"]) THEN "prepareSplDeposit"
                                 ELSE "prepareDeposit">>
    /\ UNCHANGED <<mainVars, utxoVars, cfgVars, encVars, txVars>>

\* the orchestrator call settles: res.json({success: true, ...}) or the
\* catch block's res.status(500)
OrchestratorSettles ==
    /\ httpCalled # <<>> /\ httpRes = <<>>
    /\ \/ httpRes' = <<HttpResponse(200, "")>>
       \/ httpRes' = <<HttpResponse(500, "error.message")>>
    /\ UNCHANGED <<httpReq, httpCalled>>
    /\ UNCHANGED <<mainVars, utxoVars, cfgVars, encVars, txVars>>

\* the response is sent
SendResponse ==
    /\ httpRes # <<>>
    /\ httpReq' = <<>> /\ httpCalled' = <<>> /\ httpRes' = <<>>
    /\ UNCHANGED <<mainVars, utxoVars, cfgVars, encVars, txVars>>

NextHttp == HandleRequest \/ OrchestratorSettles \/ SendResponse

SpecHttp == InitRecon /\ [][NextHttp]_vars

\* the request lacks a field its route requires
LacksRequiredField(r) ==
    \/ r.body["publicKey"] = JsUndefined
    \/ r.body["signature"] = JsUndefined
    \/ r.route # "balance" /\ r.body["amount"] = JsUndefined
    \/ r.route = "withdraw/prepare" /\ r.body["recipientAddress"] = JsUndefined

\* a prepare request with a zero or negative amount
NonPositiveAmount(r) ==
    r.route # "balance" /\ r.body["amount"].t = "num" /\ r.body["amount"].n <= 0

\* C17: a request to one of the three routes that lacks a required field,
\* or a prepare request with a zero or negative amount, is answered with
\* status 400 and an error message, and the orchestrator is not called.
C17_RejectedBeforeOrchestrator ==
    (httpReq # <<>> /\ (LacksRequiredField(httpReq[1]) \/ NonPositiveAmount(httpReq[1])))
       => /\ httpCalled = <<>>
          /\ httpRes # <<>> /\ httpRes[1].status = 400 /\ httpRes[1].error # ""

C17_Witness ==
    /\ httpReq # <<>> /\ httpRes # <<>> /\ httpRes[1].status = 400
    /\ ~LacksRequiredField(httpReq[1]) /\ NonPositiveAmount(httpReq[1])
    /\ httpReq[1].body["amount"].n < 0

(***************************************************************************)
(* encryption.ts: EncryptionService.  A buffer is a sequence of bytes; a   *)
(* byte is a tagged tuple: a literal <<"lit", n>>, a character of a string *)
(* <<"chr", c>>, a random byte, a byte of a keystream cipher, of a MAC, or *)
(* a byte somebody altered.  Hashes, MACs and ciphers are kept symbolic:   *)
(* two of their outputs are equal only if they were computed from equal    *)
(* inputs.                                                                 *)
(***************************************************************************)
Signatures == {"sigA", "sigB"}

\* ENCRYPTION_VERSION_V2
ENCRYPTION_VERSION_V2 ==
    <<<<"lit", 0>>, <<"lit", 0>>, <<"lit", 0>>, <<"lit", 0>>,
      <<"lit", 0>>, <<"lit", 0>>, <<"lit", 0>>, <<"lit", 2>>>>

\* buffer.slice(from, to)
Slice(buf, from, to) == SubSeq(buf, from + 1, Min(to, Len(buf)))

\* Variant of DerivedKeys that sets the v2 fields only.
DerivedKeysV2Only(signature) ==
    [encryptionKeyV1 |-> <<>>,
     encryptionKeyV2 |-> <<"keccak256", signature>>,
     utxoPrivateKeyV1 |-> <<>>,
     utxoPrivateKeyV2 |-> <<"0x", <<"keccak256", <<"keccak256", signature>>>>>>]

\* the key fields after deriveEncryptionKeyFromSignature(signature)
DerivedKeys(signature) ==
    [encryptionKeyV1 |-> <<"slice", signature, 0, 31>>,
     encryptionKeyV2 |-> <<"keccak256", signature>>,
     utxoPrivateKeyV1 |-> <<"0x", <<"sha256", <<"slice", signature, 0, 31>>>>>>,
     utxoPrivateKeyV2 |-> <<"0x", <<"keccak256", <<"keccak256", signature>>>>>>]

Ok(value) == [ok |-> TRUE, value |-> <<value>>, error |-> ""]
Fail(message) == [ok |-> FALSE, value |-> <<>>, error |-> message]

\* crypto.randomBytes(n); id names the draw
RandomBytes(n, id) == [i \in 1..n |-> <<"rnd", id, i>>]

\* a stream cipher (aes-256-gcm, aes-128-ctr) over data under key and iv
CipherBytes(mode, key, iv, data) ==
    [j \in 1..Len(data) |-> <<"ct", mode, key, iv, j, data[j]>>]

\* the same stream applied to a ciphertext: the plaintext byte where the
\* byte was made with this key, iv and position, an unrelated byte otherwise
DecipherBytes(mode, key, iv, data) ==
    [j \in 1..Len(data) |->
        IF /\ data[j][1] = "ct" /\ data[j][2] = mode /\ data[j][3] = key
           /\ data[j][4] = iv /\ data[j][5] = j
        THEN data[j][6]
        ELSE <<"garbage", data[j]>>]

\* cipher.getAuthTag() of aes-256-gcm
GcmTag(key, iv, data) == [i \in 1..16 |-> <<"gcmtag", key, iv, data, i>>]

\* createHmac('sha256', hmacKey).update(iv).update(data).digest().slice(0, 16)
HmacTag(hmacKey, iv, data) == [i \in 1..16 |-> <<"hmac", hmacKey, iv \o data, i>>]

\* encrypt(data) with the iv drawn
Encrypt(keys, data, iv) ==
    IF keys.encryptionKeyV2 = <<>> THEN Fail("Encryption key not set")
    ELSE LET key == keys.encryptionKeyV2
             encryptedData == CipherBytes("aes-256-gcm", key, iv, data)
             authTag == GcmTag(key, iv, encryptedData)
         IN Ok(ENCRYPTION_VERSION_V2 \o iv \o authTag \o encryptedData)

\* Variant of TimingSafeEqual that accepts every tag.
TimingSafeEqualAlways(a, b) == TRUE

\* timingSafeEqual(a, b)
TimingSafeEqual(a, b) == Len(a) = Len(b) /\ \A i \in 1..Len(a) : a[i] = b[i]

\* decryptV1(encryptedData)
DecryptV1(keys, encryptedData) ==
    IF keys.encryptionKeyV1 = <<>> THEN Fail("V1 encryption key not set")
    ELSE LET iv == Slice(encryptedData, 0, 16)
             authTag == Slice(encryptedData, 16, 32)
             data == Slice(encryptedData, 32, Len(encryptedData))
             hmacKey == <<"slice", keys.encryptionKeyV1, 16, 31>>
             calculatedTag == HmacTag(hmacKey, iv, data)
             key == <<"slice", keys.encryptionKeyV1, 0, 16>>
         IN IF ~TimingSafeEqual(authTag, calculatedTag)
            THEN Fail("Decryption failed - invalid key or corrupted data")
            ELSE Ok(DecipherBytes("aes-128-ctr", key, iv, data))

\* decryptV2(encryptedData): decipher.final() throws unless the tag set with
\* setAuthTag is the tag of the data under the key and iv
DecryptV2(keys, encryptedData) ==
    IF keys.encryptionKeyV2 = <<>> THEN Fail("V2 encryption key not set")
    ELSE LET iv == Slice(encryptedData, 8, 20)
             authTag == Slice(encryptedData, 20, 36)
             data == Slice(encryptedData, 36, Len(encryptedData))
             key == keys.encryptionKeyV2
         IN IF authTag # GcmTag(key, iv, data)
            THEN Fail("Unsupported state or unable to authenticate data")
            ELSE Ok(DecipherBytes("aes-256-gcm", key, iv, data))

\* buffer.length >= 8 && buffer.subarray(0, 8).equals(ENCRYPTION_VERSION_V2)
HasV2Tag(buffer) == Len(buffer) >= 8 /\ Slice(buffer, 0, 8) = ENCRYPTION_VERSION_V2

\* decrypt(encryptedData)
Decrypt(keys, encryptedData) ==
    IF HasV2Tag(encryptedData) THEN DecryptV2(keys, encryptedData)
    ELSE DecryptV1(keys, encryptedData)

\* Variant of GetEncryptionKeyVersion that takes every ciphertext for v2.
GetEncryptionKeyVersionV2(buffer) == "v2"

\* getEncryptionKeyVersion(encryptedData)
GetEncryptionKeyVersion(buffer) == IF HasV2Tag(buffer) THEN "v2" ELSE "v1"

\* getUtxoPrivateKeyWithVersion(version)
GetUtxoPrivateKeyWithVersion(keys, version) ==
    IF version = "v1"
    THEN IF keys.utxoPrivateKeyV1 = <<>> THEN Fail("V1 key not set")
         ELSE Ok(keys.utxoPrivateKeyV1)
    ELSE IF keys.utxoPrivateKeyV2 = <<>> THEN Fail("V2 key not set")
         ELSE Ok(keys.utxoPrivateKeyV2)

\* deriveUtxoPrivateKey()
DeriveUtxoPrivateKey(keys) ==
    IF keys.utxoPrivateKeyV1 = <<>> THEN Fail("Key not set")
    ELSE Ok(keys.utxoPrivateKeyV1)

\* getUtxoPrivateKeyV2()
GetUtxoPrivateKeyV2(keys) ==
    IF keys.utxoPrivateKeyV2 = <<>> THEN Fail("V2 key not set")
    ELSE Ok(keys.utxoPrivateKeyV2)

\* Strings are sequences of characters.
DigitChars == <<"0", "1", "2", "3", "4", "5", "6", "7", "8", "9">>

\* n.toString() of a non-negative integer
RECURSIVE DecimalString(_)
DecimalString(n) ==
    IF n < 10 THEN <<DigitChars[n + 1]>>
    ELSE Append(DecimalString(n \div 10), DigitChars[(n % 10) + 1])

DigitValue(c) ==
    IF \E d \in 1..10 : DigitChars[d] = c
    THEN (CHOOSE d \in 1..10 : DigitChars[d] = c) - 1
    ELSE 0

\* new BN(str) / Number(str) of a string of decimal digits
RECURSIVE ParseDecimal(_)
ParseDecimal(str) ==
    IF str = <<>> THEN 0
    ELSE ParseDecimal(SubSeq(str, 1, Len(str) - 1)) * 10 + DigitValue(str[Len(str)])

\* str.split(sep)
RECURSIVE SplitFrom(_, _, _, _)
SplitFrom(str, sep, part, parts) ==
    IF str = <<>> THEN Append(parts, part)
    ELSE IF Head(str) = sep THEN SplitFrom(Tail(str), sep, <<>>, Append(parts, part))
    ELSE SplitFrom(Tail(str), sep, Append(part, Head(str)), parts)

Split(str, sep) == SplitFrom(str, sep, <<>>, <<>>)

\* Buffer.from(str)
BufferFrom(str) == [i \in 1..Len(str) |-> <<"chr", str[i]>>]

\* buffer.toString(): a byte that is no character decodes to U+FFFD
BufferToString(buffer) ==
    [i \in 1..Len(buffer) |-> IF buffer[i][1] = "chr" THEN buffer[i][2] ELSE "?"]

\* `${amount}|${blinding}|${index}|${mintAddress}`
UtxoString(utxo) ==
    DecimalString(utxo.amount) \o <<"|">> \o DecimalString(utxo.blinding) \o <<"|">>
        \o DecimalString(utxo.index) \o <<"|">> \o utxo.mintAddress

\* encryptUtxo(utxo) with the iv drawn
EncryptUtxo(keys, utxo, iv) == Encrypt(keys, BufferFrom(UtxoString(utxo)), iv)

\* decryptUtxo(encryptedData)
DecryptUtxoBuffer(keys, encryptedBuffer) ==
    LET utxoVersion == GetEncryptionKeyVersion(encryptedBuffer)
        plain == Decrypt(keys, encryptedBuffer)
    IN IF ~plain.ok THEN plain
       ELSE LET parts == Split(BufferToString(plain.value[1]), "|")
                privateKey == GetUtxoPrivateKeyWithVersion(keys, utxoVersion)
            IN IF Len(parts) # 4 THEN Fail("Invalid UTXO format")
               ELSE IF ~privateKey.ok THEN privateKey
               ELSE Ok(UtxoNew(
                       [amount |-> <<ParseDecimal(parts[1])>>,
                        keypair |-> <<"keypair", privateKey.value[1]>>,
                        blinding |-> IF parts[2] # <<>> THEN <<ParseDecimal(parts[2])>>
                                     ELSE <<>>,
                        index |-> <<ParseDecimal(parts[3])>>,
                        mintAddress |-> <<parts[4]>>,
                        version |-> <<utxoVersion>>],
                       IF parts[2] # <<>> THEN ParseDecimal(parts[2]) ELSE 0))

\* the ciphertext decryptV1 reads for data under the keys of a signature:
\* iv(16) || HMAC tag(16) || aes-128-ctr(data)
V1Ciphertext(keys, data, iv) ==
    LET key == <<"slice", keys.encryptionKeyV1, 0, 16>>
        hmacKey == <<"slice", keys.encryptionKeyV1, 16, 31>>
        encryptedData == CipherBytes("aes-128-ctr", key, iv, data)
    IN iv \o HmacTag(hmacKey, iv, encryptedData) \o encryptedData

\* the UTXOs that get encrypted
EncUtxos ==
    {Utxo(0, "owner", 7, 2, <<"S", "o">>, "v2"),
     Utxo(15, "owner", 7, 10, <<"S", "o">>, "v2")}

Made(version, utxo, signature) ==
    [version |-> version, utxo |-> utxo, signature |-> signature, altered |-> 0]

\* a call on the service: its outcome, the key fields before and after it,
\* and the ciphertext it was given; the outcome is looked at before the next
\* step is taken
Outcome(op, r, before, made) ==
    [op |-> op, ok |-> r.ok, value |-> r.value, error |-> r.error,
     keysBefore |-> before, keysAfter |-> before, made |-> made]

encRest == <<mainVars, utxoVars, cfgVars, httpVars, txVars>>

\* deriveEncryptionKeyFromSignature(signature)
DeriveEncryptionKeyFromSignature ==
    /\ \E signature \in Signatures : encKeys' = DerivedKeys(signature)
    /\ encCall' = NoCall
    /\ UNCHANGED <<encBuf, encMade, encRest>>

\* encrypt(data) on a UTXO string, or encryptUtxo(utxo)
CallEncrypt ==
    /\ \E op \in {"encrypt", "encryptUtxo"}, utxo \in EncUtxos :
          LET r == IF op = "encrypt"
                   THEN Encrypt(encKeys, BufferFrom(UtxoString(utxo)), RandomBytes(12, "iv"))
                   ELSE EncryptUtxo(encKeys, utxo, RandomBytes(12, "iv"))
          IN /\ encCall' = Outcome(op, r, encKeys, NoCiphertext)
             /\ IF r.ok
                THEN /\ encBuf' = r.value[1]
                     /\ encMade' = Made("v2", utxo, encKeys.encryptionKeyV2[2])
                ELSE UNCHANGED <<encBuf, encMade>>
    /\ UNCHANGED <<encKeys, encRest>>

\* an output of the legacy format is read from the log
ReadV1Ciphertext ==
    /\ \E utxo \in EncUtxos, signature \in Signatures :
          /\ encBuf' = V1Ciphertext(DerivedKeys(signature), BufferFrom(UtxoString(utxo)),
                                    RandomBytes(16, "iv"))
          /\ encMade' = Made("v1", utxo, signature)
    /\ encCall' = NoCall
    /\ UNCHANGED <<encKeys, encRest>>

\* one byte of the ciphertext at hand is altered
AlterByte ==
    /\ encMade.version # "none" /\ encMade.altered = 0
    /\ \E at \in 1..Len(encBuf) :
          /\ encBuf' = [encBuf EXCEPT ![at] = <<"altered", @>>]
          /\ encMade' = [encMade EXCEPT !.altered = at]
    /\ encCall' = NoCall
    /\ UNCHANGED <<encKeys, encRest>>

\* decrypt(encryptedData)
CallDecrypt ==
    /\ encMade.version # "none"
    /\ encCall' = Outcome("decrypt", Decrypt(encKeys, encBuf), encKeys, encMade)
    /\ UNCHANGED <<encKeys, encBuf, encMade, encRest>>

\* decryptUtxo(encryptedData)
CallDecryptUtxo ==
    /\ encMade.version # "none"
    /\ encCall' = Outcome("decryptUtxo", DecryptUtxoBuffer(encKeys, encBuf), encKeys, encMade)
    /\ UNCHANGED <<encKeys, encBuf, encMade, encRest>>

\* the accessors of the spending keys
CallKeyAccessor ==
    /\ \/ \E version \in {"v1", "v2"} :
            encCall' = Outcome("getUtxoPrivateKeyWithVersion",
                               GetUtxoPrivateKeyWithVersion(encKeys, version),
                               encKeys, NoCiphertext)
       \/ encCall' = Outcome("deriveUtxoPrivateKey", DeriveUtxoPrivateKey(encKeys),
                             encKeys, NoCiphertext)
       \/ encCall' = Outcome("getUtxoPrivateKeyV2", GetUtxoPrivateKeyV2(encKeys),
                             encKeys, NoCiphertext)
    /\ UNCHANGED <<encKeys, encBuf, encMade, encRest>>

NextEnc ==
    \/ DeriveEncryptionKeyFromSignature
    \/ CallEncrypt
    \/ ReadV1Ciphertext
    \/ AlterByte
    \/ CallDecrypt
    \/ CallDecryptUtxo
    \/ CallKeyAccessor

SpecEnc == InitRecon /\ [][NextEnc]_vars

\* the errors thrown for a key field that is null
KeyNotSetErrors ==
    {"Encryption key not set", "V1 encryption key not set", "V2 encryption key not set",
     "V1 key not set", "V2 key not set", "Key not set"}

\* the errors of a failed authentication
AuthErrors ==
    {"Decryption failed - invalid key or corrupted data",
     "Unsupported state or unable to authenticate data"}

DecryptCall == encCall.op \in {"decrypt", "decryptUtxo"}

\* C12: decrypt (and decryptUtxo) of a ciphertext of either format in which
\* a byte was altered, be it of the version tag, the iv, the auth tag or the
\* body, fails and returns nothing; with the keys derived the failure is
\* the failed authentication.
C12_AlteredNeverDecrypts ==
    (DecryptCall /\ encCall.made.altered # 0) =>
        /\ ~encCall.ok /\ encCall.value = <<>>
        /\ encCall.error \in KeyNotSetErrors \cup AuthErrors
        /\ encCall.keysBefore # NoKeys => encCall.error \in AuthErrors

C12_Witness ==
    /\ encCall.op = "decrypt" /\ encCall.made.version = "v1"
    /\ encCall.made.altered > 32
    /\ encCall.keysBefore = DerivedKeys(encCall.made.signature)
    /\ encCall.error \in AuthErrors

\* the spending key of a version under the keys of a signature
SpendingKey(signature, version) ==
    IF version = "v1" THEN DerivedKeys(signature).utxoPrivateKeyV1
    ELSE DerivedKeys(signature).utxoPrivateKeyV2

\* C13: decryptUtxo, with the keys derived from the signature a ciphertext
\* was made under, of an unaltered v1 or v2 ciphertext of UTXO u returns a
\* UTXO with u's amount, blinding, index and mint, of the ciphertext's
\* version (v2 exactly when the ciphertext starts with the v2 tag) and with
\* the keypair of that version's spending key.
C13_RoundTrip ==
    (/\ encCall.op = "decryptUtxo" /\ encCall.made.altered = 0
     /\ encCall.keysBefore = DerivedKeys(encCall.made.signature)) =>
        /\ encCall.ok
        /\ LET utxo == encCall.value[1]
               made == encCall.made
           IN /\ utxo.amount = made.utxo.amount
              /\ utxo.blinding = made.utxo.blinding
              /\ utxo.index = made.utxo.index
              /\ utxo.mintAddress = made.utxo.mintAddress
              /\ utxo.version = made.version
              /\ (utxo.version = "v2") <=> HasV2Tag(encBuf)
              /\ utxo.keypair = <<"keypair", SpendingKey(made.signature, made.version)>>

C13_Witness ==
    /\ encCall.op = "decryptUtxo" /\ encCall.ok
    /\ encCall.made.version = "v1" /\ encCall.made.altered = 0
    /\ encCall.value[1].amount = 15 /\ encCall.value[1].index = 10

AllKeysSet(keys) ==
    /\ keys.encryptionKeyV1 # <<>> /\ keys.encryptionKeyV2 # <<>>
    /\ keys.utxoPrivateKeyV1 # <<>> /\ keys.utxoPrivateKeyV2 # <<>>

\* C15: on a service whose keys were not derived, encrypt, encryptUtxo,
\* decrypt, decryptUtxo and the spending-key accessors fail with a
\* key-not-set error and leave the four key fields null; once the
\* derivation has run all four fields are set and no call fails with a
\* key-not-set error.
C15_KeysBeforeUse ==
    /\ encKeys = NoKeys \/ AllKeysSet(encKeys)
    /\ encCall.op # "none" =>
          /\ encCall.keysAfter = encKeys /\ encCall.keysBefore = encKeys
          /\ encKeys = NoKeys =>
                ~encCall.ok /\ encCall.value = <<>> /\ encCall.error \in KeyNotSetErrors
          /\ encKeys # NoKeys => encCall.error \notin KeyNotSetErrors

C15_Witness ==
    /\ encCall.op = "decryptUtxo" /\ encKeys = NoKeys
    /\ encCall.error = "V1 encryption key not set"

C18_HashOfCurrentFields ==
    /\ utxoCall.op = "getCommitment"
         => utxoCall.value = PoseidonCommitment(utxoCall.at)
    /\ utxoCall.op = "getNullifier"
         => utxoCall.value = PoseidonNullifier(PoseidonCommitment(utxoCall.at),
                                               utxoCall.at.index, utxoCall.at.keypair)

\* the prepare operation in flight has its proof inputs
ProofInputsReady == kind \in PrepareKinds /\ pc \in {"prove", "done"}

\* C19: in the proof inputs of a prepare operation every fetched path opens
\* the commitment of its own input, in a tree no older than the one of the
\* queried root; and the paths are paths to the queried root itself as long
\* as the log has not grown since the tree-state query.
C19_PathsAgainstQueriedRoot ==
    ProofInputsReady =>
      /\ Len(merklePaths) = Len(inputs)
      /\ \A i \in 1..Len(inputs) :
            IF NeedsMerkleProof(kind, validUtxos, inputs, i)
            THEN /\ merklePaths[i][1] = "path"
                 /\ merklePaths[i][2] = PoseidonCommitment(inputs[i])
                 /\ merklePaths[i][3][2] >= treeState.nextIndex
                 /\ Len(ledger) = treeState.nextIndex
                      => merklePaths[i][3] = treeState.root
            ELSE merklePaths[i] = ZeroPath

\* C19 as stated: the fetched paths are always paths to the queried root.
C19_AsStated ==
    ProofInputsReady =>
      \A i \in 1..Len(merklePaths) :
         merklePaths[i] # ZeroPath => merklePaths[i][3] = treeState.root

C19_Witness ==
    /\ ProofInputsReady /\ pc = "done"
    /\ Len(ledger) = treeState.nextIndex
    /\ \E i \in 1..Len(merklePaths) : merklePaths[i] # ZeroPath

\* the reconstruction loop is running
InLoop == pc \in {"fetchPage", "decrypt", "spentCheck"}

\* a fetch of the call in flight came back with no entries
EmptyFetch == fetches # <<>> /\ fetches[Len(fetches)].count = 0

\* each fetch of one call starts beyond the one before it and within the log
FetchesAdvance ==
    /\ \A j \in 1..Len(fetches) : fetches[j].start <= fetches[j].logLen
    /\ \A j \in 1..(Len(fetches) - 1) : fetches[j].start < fetches[j + 1].start

\* C16: a fetch that returns no entries (and so hasMore = false) ends the
\* loop without error with the UTXOs found so far, none when it is the first
\* fetch; and against the finite log the loop always ends: its fetches start
\* at strictly growing offsets within the log and a running loop leads to a
\* return or a rejection.
C16_LoopTerminates ==
    /\ [](EmptyFetch =>
            /\ ~page.hasMore /\ Len(fetches) = 1
            /\ pc = "done" /\ validUtxos = <<>>
            /\ returned = <<[lamports |-> 0]>>)
    /\ []FetchesAdvance
    /\ InLoop ~> pc \in {"done", "failed"}

C16_Witness == EmptyFetch /\ pc = "done"

\* C21: a prepare operation queries the tree state once, before any Merkle
\* path is fetched and before the proof inputs are complete; the two outputs
\* sit at the nextIndex of that one response and the one after it; and the
\* tree state the operation holds is never replaced after the query.
C21_TreeStateOnce ==
    /\ [](kind \in PrepareKinds =>
            LET roots == {i \in 1..Len(remoteCalls) : remoteCalls[i][1] = "merkle/root"}
                proofs == {i \in 1..Len(remoteCalls) : remoteCalls[i][1] = "merkle/proof"}
            IN /\ Cardinality(roots) <= 1
               /\ \A i \in proofs :
                     \E j \in roots : j < i /\ remoteCalls[j][2] = "ok"
               /\ pc \in {"fetchPage", "decrypt", "spentCheck", "select",
                          "merkle", "prove", "done"}
                     => \E j \in roots : remoteCalls[j][2] = "ok"
               /\ outputs # <<>> =>
                     /\ outputs[1].index = treeState.nextIndex
                     /\ outputs[2].index = treeState.nextIndex + 1)
    /\ [][(kind' = kind /\ kind \in PrepareKinds) =>
            (IF pc = "treeState" /\ pc' = "fetchPage"
             THEN treeState' = TreeStateNow
             ELSE treeState' = treeState)]_vars

\* a prepare operation finished with fetched paths while the log grew after
\* its tree-state query
C21_Witness ==
    /\ kind \in PrepareKinds /\ pc = "done" /\ outputs # <<>>
    /\ Len(ledger) > treeState.nextIndex
    /\ \E i \in 1..Len(remoteCalls) : remoteCalls[i][1] = "merkle/proof"

(***************************************************************************)
(* SpecTx: the transaction builder (findNullifierPDAs,                     *)
(* findCrossCheckNullifierPDAs over the proof re-encoded by                *)
(* parseToBytesArray), the chain that accepts what it built, and the spent *)
(* check of areUtxosSpent on one nullifier.  Field elements are small      *)
(* numbers in the 32-byte width of the code.                               *)
(***************************************************************************)
\* nullifiers (decimal strings, as getNullifier and the prover give them)
NullifierValues == {DecimalString(1), DecimalString(258)}

\* parseToBytesArray: every public signal as BigInt, 32 bytes little-endian
ParseToBytesArray(publicSignals) ==
    [i \in 1..Len(publicSignals) |->
        BigIntToLeBytes(ParseDecimal(publicSignals[i]), 32)]

\* Array.prototype.reverse
Reverse(s) == [i \in 1..Len(s) |-> s[Len(s) + 1 - i]]

\* leInt2Buff(n, len) of ffjavascript: n as len bytes, little-endian
LeInt2Buff(n, len) == BigIntToLeBytes(n, len)

\* areUtxosSpent: Array.from(leInt2Buff(unstringifyBigInts(nullifier), 32))
\* .reverse()
NullifierBytes(nullifier) == Reverse(LeInt2Buff(ParseDecimal(nullifier), 32))

\* areUtxosSpent: the two addresses probed for one UTXO
ProbedPDAs(nullifier) ==
    {NullifierPDA("nullifier0", NullifierBytes(nullifier)),
     NullifierPDA("nullifier1", NullifierBytes(nullifier))}

\* the public signals of the prover, in circuit order: root, publicAmount,
\* extDataHash, the input nullifiers, the output commitments
PublicSignals(n0, n1) ==
    <<DecimalString(7), DecimalString(1), DecimalString(9), n0, n1,
      DecimalString(11), DecimalString(12)>>

\* the proof of the prover: group elements as decimal strings
Groth16Proof ==
    [pi_a |-> <<DecimalString(3), DecimalString(4)>>,
     pi_b |-> << <<DecimalString(5), DecimalString(6)>>,
                 <<DecimalString(513), DecimalString(8)>> >>,
     pi_c |-> <<DecimalString(9), DecimalString(10)>>]

\* parseProofToBytesArray: each coordinate as 32 bytes little-endian, the
\* two coordinates of each pair of pi_b swapped
ParseProofToBytesArray(proof) ==
    [proofA |-> BigIntToLeBytes(ParseDecimal(proof.pi_a[1]), 32)
                    \o BigIntToLeBytes(ParseDecimal(proof.pi_a[2]), 32),
     proofB |-> << BigIntToLeBytes(ParseDecimal(proof.pi_b[1][2]), 32)
                       \o BigIntToLeBytes(ParseDecimal(proof.pi_b[1][1]), 32),
                   BigIntToLeBytes(ParseDecimal(proof.pi_b[2][2]), 32)
                       \o BigIntToLeBytes(ParseDecimal(proof.pi_b[2][1]), 32) >>,
     proofC |-> BigIntToLeBytes(ParseDecimal(proof.pi_c[1]), 32)
                    \o BigIntToLeBytes(ParseDecimal(proof.pi_c[2]), 32)]

\* proofToSubmit of the prepare operations: the re-encoded proof (proofB
\* flattened) and public signals
ProofToSubmit(publicSignals) ==
    LET proofInBytes == ParseProofToBytesArray(Groth16Proof)
        inputsInBytes == ParseToBytesArray(publicSignals)
    IN [proofA |-> proofInBytes.proofA,
        proofB |-> proofInBytes.proofB[1] \o proofInBytes.proofB[2],
        proofC |-> proofInBytes.proofC,
        root |-> inputsInBytes[1],
        publicAmount |-> inputsInBytes[2],
        extDataHash |-> inputsInBytes[3],
        inputNullifiers |-> <<inputsInBytes[4], inputsInBytes[5]>>,
        outputCommitments |-> <<inputsInBytes[6], inputsInBytes[7]>>]

FindNullifierPDAs(proof) ==
    [nullifier0PDA |-> NullifierPDA("nullifier0", proof.inputNullifiers[1]),
     nullifier1PDA |-> NullifierPDA("nullifier1", proof.inputNullifiers[2])]

\* Variant of FindCrossCheckNullifierPDAs that derives each input under its
\* own prefix again.
FindCrossCheckSamePrefix(proof) ==
    [nullifier2PDA |-> NullifierPDA("nullifier0", proof.inputNullifiers[1]),
     nullifier3PDA |-> NullifierPDA("nullifier1", proof.inputNullifiers[2])]

\* findCrossCheckNullifierPDAs: each input under the other prefix
FindCrossCheckNullifierPDAs(proof) ==
    [nullifier2PDA |-> NullifierPDA("nullifier0", proof.inputNullifiers[2]),
     nullifier3PDA |-> NullifierPDA("nullifier1", proof.inputNullifiers[1])]

TRANSACT_IX_DISCRIMINATOR == <<217, 149, 130, 143, 221, 52, 252, 119>>
TRANSACT_SPL_IX_DISCRIMINATOR == <<154, 66, 244, 204, 78, 225, 163, 151>>

\* the external amounts handed to the serializer: small ones of either sign
\* and the ends of the signed 64-bit range, 2^63 - 1, -2^63 and 2^63
ExtAmounts ==
    {BNOf(1), BNOf(258), BNOf(0 - 1), BNOf(0 - 258),
     [negative |-> FALSE, mag |-> <<255, 255, 255, 255, 255, 255, 255, 127>>],
     [negative |-> TRUE, mag |-> <<0, 0, 0, 0, 0, 0, 0, 128>>],
     [negative |-> FALSE, mag |-> <<0, 0, 0, 0, 0, 0, 0, 128>>]}

\* fees in lamports
Fees == {0, 258}

\* the pairs of encrypted outputs, as byte buffers
EncryptedOutputs == {<< <<10, 11, 12>>, <<20, 21>> >>, << <<30>>, <<40, 41, 42, 43>> >>}

\* Variant of SerializeProofAndExtData that writes the magnitude of the
\* external amount.
SerializeWithoutTwos(proof, extData, isSpl) ==
    (IF isSpl THEN TRANSACT_SPL_IX_DISCRIMINATOR ELSE TRANSACT_IX_DISCRIMINATOR)
        \o proof.proofA \o proof.proofB \o proof.proofC
        \o proof.root \o proof.publicAmount \o proof.extDataHash
        \o proof.inputNullifiers[1] \o proof.inputNullifiers[2]
        \o proof.outputCommitments[1] \o proof.outputCommitments[2]
        \o ToArrayLe(extData.extAmount, 8)
        \o ToArrayLe(extData.fee, 8)
        \o ToArrayLe(BNOf(Len(extData.encryptedOutput1)), 4)
        \o extData.encryptedOutput1
        \o ToArrayLe(BNOf(Len(extData.encryptedOutput2)), 4)
        \o extData.encryptedOutput2

\* serializeProofAndExtData: Buffer.concat of the parts
SerializeProofAndExtData(proof, extData, isSpl) ==
    (IF isSpl THEN TRANSACT_SPL_IX_DISCRIMINATOR ELSE TRANSACT_IX_DISCRIMINATOR)
        \o proof.proofA \o proof.proofB \o proof.proofC
        \o proof.root \o proof.publicAmount \o proof.extDataHash
        \o proof.inputNullifiers[1] \o proof.inputNullifiers[2]
        \o proof.outputCommitments[1] \o proof.outputCommitments[2]
        \o ToArrayLe(ToTwos64(extData.extAmount), 8)
        \o ToArrayLe(extData.fee, 8)
        \o ToArrayLe(BNOf(Len(extData.encryptedOutput1)), 4)
        \o extData.encryptedOutput1
        \o ToArrayLe(BNOf(Len(extData.encryptedOutput2)), 4)
        \o extData.encryptedOutput2

\* A prepare operation hands its proof and ext data to the transaction
\* builder: buildUnsignedDepositTransaction (isSpl false) or
\* buildUnsignedSplDepositTransaction (isSpl true).  One transaction is on
\* its way to the chain at a time.
BuildTransaction ==
    /\ txBuilt = <<>>
    /\ \E n0 \in NullifierValues, n1 \in NullifierValues, isSpl \in BOOLEAN,
          ext \in ExtAmounts, feeAmount \in Fees, enc \in EncryptedOutputs :
          /\ n0 # n1
          /\ LET proof == ProofToSubmit(PublicSignals(n0, n1))
                 extData == [extAmount |-> ext, fee |-> BNOf(feeAmount),
                             encryptedOutput1 |-> enc[1],
                             encryptedOutput2 |-> enc[2]]
             IN txBuilt' = <<[nullifiers |-> <<n0, n1>>,
                              proof |-> proof,
                              extData |-> extData,
                              isSpl |-> isSpl,
                              primary |-> FindNullifierPDAs(proof),
                              crossCheck |-> FindCrossCheckNullifierPDAs(proof),
                              serializedProof |->
                                  SerializeProofAndExtData(proof, extData, isSpl)]>>
    /\ UNCHANGED <<txAccounts, txSpent, txProbe>>
    /\ UNCHANGED <<mainVars, utxoVars, cfgVars, httpVars, encVars>>

\* The chain accepts the transaction built: it creates the two writable
\* nullifier accounts the transaction names; none of the four may exist.
AcceptTransaction ==
    /\ txBuilt # <<>>
    /\ LET tx == txBuilt[1]
           named == {tx.primary.nullifier0PDA, tx.primary.nullifier1PDA,
                     tx.crossCheck.nullifier2PDA, tx.crossCheck.nullifier3PDA}
       IN /\ named \cap txAccounts = {}
          /\ txAccounts' = txAccounts \cup
                {tx.primary.nullifier0PDA, tx.primary.nullifier1PDA}
          /\ txSpent' = txSpent \cup {tx.nullifiers[1], tx.nullifiers[2]}
    /\ txBuilt' = <<>> /\ txProbe' = NoCall
    /\ UNCHANGED <<mainVars, utxoVars, cfgVars, httpVars, encVars>>

\* The chain rejects the transaction built: an address it names exists.
RejectTransaction ==
    /\ txBuilt # <<>>
    /\ LET tx == txBuilt[1]
       IN {tx.primary.nullifier0PDA, tx.primary.nullifier1PDA,
           tx.crossCheck.nullifier2PDA, tx.crossCheck.nullifier3PDA}
              \cap txAccounts # {}
    /\ txBuilt' = <<>>
    /\ UNCHANGED <<txAccounts, txSpent, txProbe>>
    /\ UNCHANGED <<mainVars, utxoVars, cfgVars, httpVars, encVars>>

\* areUtxosSpent on a UTXO with the given nullifier: spent when either
\* probed address exists.
ProbeSpent ==
    /\ \E nullifier \in NullifierValues :
          LET pdas == ProbedPDAs(nullifier)
          IN txProbe' = [op |-> "areUtxosSpent", nullifier |-> nullifier,
                         pdas |-> pdas,
                         spent |-> pdas \cap txAccounts # {}]
    /\ UNCHANGED <<txBuilt, txAccounts, txSpent>>
    /\ UNCHANGED <<mainVars, utxoVars, cfgVars, httpVars, encVars>>

NextTx == BuildTransaction \/ AcceptTransaction \/ RejectTransaction \/ ProbeSpent

SpecTx == InitRecon /\ [][NextTx]_vars

\* C22: areUtxosSpent reports spent every UTXO whose nullifier a transaction
\* built by the engine and accepted by the chain has consumed.
C22_SpentAfterAccept ==
    (txProbe.op = "areUtxosSpent" /\ txProbe.nullifier \in txSpent)
        => txProbe.spent

\* C23: of a proof with input nullifiers n0 and n1 the primary addresses are
\* PDA('nullifier0', n0) and PDA('nullifier1', n1) and the cross-check
\* addresses PDA('nullifier0', n1) and PDA('nullifier1', n0): every pair of
\* prefix and input once, so the proof with the inputs swapped yields the
\* same set of four addresses.
C23_EveryPrefixInputPair ==
    txBuilt # <<>> =>
        LET tx == txBuilt[1]
            n == tx.proof.inputNullifiers
            four == <<tx.primary.nullifier0PDA, tx.primary.nullifier1PDA,
                      tx.crossCheck.nullifier2PDA, tx.crossCheck.nullifier3PDA>>
            swapped == ProofToSubmit(PublicSignals(tx.nullifiers[2], tx.nullifiers[1]))
            p == FindNullifierPDAs(swapped)
            x == FindCrossCheckNullifierPDAs(swapped)
        IN /\ four = <<NullifierPDA("nullifier0", n[1]), NullifierPDA("nullifier1", n[2]),
                       NullifierPDA("nullifier0", n[2]), NullifierPDA("nullifier1", n[1])>>
           /\ \A prefix \in {"nullifier0", "nullifier1"}, i \in 1..2 :
                 Cardinality({k \in 1..4 : four[k] = NullifierPDA(prefix, n[i])}) = 1
           /\ {four[k] : k \in 1..4}
                 = {p.nullifier0PDA, p.nullifier1PDA, x.nullifier2PDA, x.nullifier3PDA}

\* a transaction was built from a proof over two different nullifiers
C23_Witness ==
    /\ txBuilt # <<>>
    /\ txBuilt[1].proof.inputNullifiers[1] # txBuilt[1].proof.inputNullifiers[2]
    /\ txBuilt[1].primary.nullifier0PDA # txBuilt[1].crossCheck.nullifier2PDA

\* C24: when a prepare operation succeeds its amounts balance: the two input
\* amounts plus the signed external amount minus the fee are the two output
\* amounts (for a withdrawal: the inputs are the change, the payout and the
\* fee), and no input, output or fee amount is negative.
C24_AmountsBalance ==
    (kind \in PrepareKinds /\ pc = "done") =>
        LET ins == inputs[1].amount + inputs[2].amount
            outs == outputs[1].amount + outputs[2].amount
            tx == returned[1]
        IN /\ ins + tx.extAmount - tx.fee = outs
           /\ kind = "prepareWithdraw" =>
                 /\ tx.extAmount < 0
                 /\ ins = outputs[1].amount + (0 - tx.extAmount) + tx.fee
           /\ kind \in DepositKinds => tx.extAmount = Amount(kind, arg)
           /\ tx.fee >= 0
           /\ \A i \in 1..2 : inputs[i].amount >= 0 /\ outputs[i].amount >= 0

\* a withdrawal that pays a fee and leaves change succeeded
C24_Witness ==
    /\ kind = "prepareWithdraw" /\ pc = "done"
    /\ returned[1].fee > 0 /\ outputs[1].amount > 0
    /\ inputs[2].amount > 0

\* new BN(mint.toBytes().slice(0, 31), 'be').toString(): the first 31 bytes
\* of the decoded address as a decimal string, for the mints of the model
MintBytes31(mint) ==
    IF mint = SPL_MINT
    THEN "351564470195712479312889784364378094793935933814098925423924767071335165789"
    ELSE "0"

\* PrivacyCashService.getMintAddressField: the mintAddress input of the
\* circuit in prepareSplDeposit
GetMintAddressField(mint) ==
    IF mint = SOL_MINT_SHORT THEN mint ELSE MintBytes31(mint)

\* the mintAddress input of the circuit: inputs[0].mintAddress in
\* prepareDeposit and prepareWithdraw
CircuitMintAddress(k) ==
    IF k = "prepareSplDeposit" THEN GetMintAddressField(MintOf(k))
    ELSE inputs[1].mintAddress

\* the asset value a commitment hashes (its last preimage element)
HashedMint(commitment) == commitment[5]

\* C25: when prepareSplDeposit succeeds, the asset value hashed into the
\* commitment of every input and output is the mintAddress input of the
\* circuit.
C25_SameMintField ==
    (kind = "prepareSplDeposit" /\ pc = "done") =>
        \A i \in 1..2 :
            /\ HashedMint(PoseidonCommitment(inputs[i])) = CircuitMintAddress(kind)
            /\ HashedMint(PoseidonCommitment(outputs[i])) = CircuitMintAddress(kind)

\* the nullifier of a reconstructed UTXO at the tree position the ledger
\* reports for its ciphertext
NullifierAtLedgerIndex(u) ==
    PoseidonNullifier(PoseidonCommitment(u), IndexOfCt(u.blinding[2])[1], u.keypair)

C27_WithdrawPollObserves ==
    [][(kind = "submitWithdraw" /\ pc = "poll"
            /\ (\E i \in 1..Len(ledger) : ledger[i].ct = pollId[2])
            /\ Len(remoteCalls') = Len(remoteCalls) + 1)
        => /\ pollId[1] = "hex"
           /\ remoteCalls'[Len(remoteCalls')] # <<"utxos/check", "absent">>]_vars

\* the bytes of a buffer from offset from (inclusive) to offset to
Bytes(buf, from, to) == SubSeq(buf, from + 1, to)

\* an 8-byte little-endian two's-complement integer read back as a number
\* with sign and magnitude
FromTwos64(bytes) ==
    IF bytes[8] >= 128
    THEN [negative |-> TRUE, mag |-> Strip(Incr(Notn(bytes, 8)))]
    ELSE [negative |-> FALSE, mag |-> Strip(bytes)]

\* -2^63 <= bn < 2^63
InSigned64(bn) ==
    \/ Len(bn.mag) < 8
    \/ Len(bn.mag) = 8 /\ bn.mag[8] < 128
    \/ bn.negative /\ bn.mag = <<0, 0, 0, 0, 0, 0, 0, 128>>

\* C28: the serialized payload is the 8-byte discriminator (the token one
\* exactly when isSpl), proofA (64), proofB (128), proofC (64), then root,
\* publicAmount, extDataHash, the two nullifiers and the two commitments at
\* 32 bytes each, the external amount in 8 bytes, the fee in 8 bytes
\* little-endian, and each encrypted output after its 4-byte length; an
\* external amount in [-2^63, 2^63) reads back from its 8 bytes unchanged.
C28_WireLayout ==
    txBuilt # <<>> =>
        LET tx == txBuilt[1]
            d == tx.serializedProof
            len1 == Len(tx.extData.encryptedOutput1)
            len2 == Len(tx.extData.encryptedOutput2)
        IN /\ Len(d) = 512 + len1 + len2
           /\ Bytes(d, 0, 8) = (IF tx.isSpl THEN <<154, 66, 244, 204, 78, 225, 163, 151>>
                                ELSE <<217, 149, 130, 143, 221, 52, 252, 119>>)
           /\ Bytes(d, 8, 72) = tx.proof.proofA /\ Len(tx.proof.proofA) = 64
           /\ Bytes(d, 72, 200) = tx.proof.proofB /\ Len(tx.proof.proofB) = 128
           /\ Bytes(d, 200, 264) = tx.proof.proofC /\ Len(tx.proof.proofC) = 64
           /\ Bytes(d, 264, 296) = tx.proof.root
           /\ Bytes(d, 296, 328) = tx.proof.publicAmount
           /\ Bytes(d, 328, 360) = tx.proof.extDataHash
           /\ Bytes(d, 360, 392) = tx.proof.inputNullifiers[1]
           /\ Bytes(d, 392, 424) = tx.proof.inputNullifiers[2]
           /\ Bytes(d, 424, 456) = tx.proof.outputCommitments[1]
           /\ Bytes(d, 456, 488) = tx.proof.outputCommitments[2]
           /\ InSigned64(tx.extData.extAmount)
                 => FromTwos64(Bytes(d, 488, 496)) = tx.extData.extAmount
           /\ Strip(Bytes(d, 496, 504)) = tx.extData.fee.mag
           /\ Strip(Bytes(d, 504, 508)) = BNOf(len1).mag
           /\ Bytes(d, 508, 508 + len1) = tx.extData.encryptedOutput1
           /\ Strip(Bytes(d, 508 + len1, 512 + len1)) = BNOf(len2).mag
           /\ Bytes(d, 512 + len1, 512 + len1 + len2) = tx.extData.encryptedOutput2

\* a token transaction with a negative external amount was serialized
C28_Witness ==
    /\ txBuilt # <<>>
    /\ txBuilt[1].isSpl
    /\ txBuilt[1].extData.extAmount = [negative |-> TRUE, mag |-> <<0, 0, 0, 0, 0, 0, 0, 128>>]
    /\ Bytes(txBuilt[1].serializedProof, 488, 496) = <<0, 0, 0, 0, 0, 0, 0, 128>>

\* C29: the public amount of every prepare operation is a number of
\* [0, FIELD_SIZE), never negative: the deposited amount for a deposit, and
\* for a withdrawal the number that payout + fee completes to FIELD_SIZE;
\* that is (extAmount - fee + FIELD_SIZE) mod FIELD_SIZE.
C29_PublicAmountInField ==
    (kind \in PrepareKinds /\ pc = "done") =>
        LET tx == returned[1]
            pa == tx.publicAmount
        IN /\ ~pa.negative
           /\ CmpMag(pa.mag, FIELD_SIZE.mag) < 0
           /\ kind \in DepositKinds => pa = BNOf(Amount(kind, arg))
           /\ kind = "prepareWithdraw" =>
                 /\ BNAdd(pa, BNOf(fee.amountAfterFee + fee.feeInLamports)) = FIELD_SIZE
                 /\ fee.amountAfterFee = 0 - tx.extAmount
                 /\ fee.feeInLamports = tx.fee
           /\ \E q \in {0, 1} :
                 BNAdd(pa, IF q = 1 THEN FIELD_SIZE ELSE BNOf(0))
                    = BNAdd(BNOf(tx.extAmount - tx.fee), FIELD_SIZE)

\* a withdrawal with a fee succeeded
C29_Witness ==
    /\ kind = "prepareWithdraw" /\ pc = "done"
    /\ returned[1].fee > 0
    /\ Len(returned[1].publicAmount.mag) = 32

\* C30: the confirmation poll of a submit call makes at most 10 existence
\* checks, each after one delay of 2000 ms; a check that reports the output
\* (or that goes wrong) is the last one; the call returns only after a
\* positive check or after the tenth check; and a poll always ends.
C30_PollBounded ==
    /\ [](kind \in {"submitDeposit", "submitWithdraw"} =>
            LET checks == {i \in 1..Len(remoteCalls) : remoteCalls[i][1] = "utxos/check"}
            IN /\ Cardinality(checks) <= 10
               /\ Len(delays) = Cardinality(checks)
               /\ \A i \in 1..Len(delays) : delays[i] = 2000
               /\ \A i \in checks :
                     remoteCalls[i][2] # "absent" => i = Len(remoteCalls)
               /\ pc = "poll" => Cardinality(checks) < 10
               /\ pc = "done" =>
                     \/ remoteCalls[Len(remoteCalls)] = <<"utxos/check", "exists">>
                     \/ Cardinality(checks) = 10)
    /\ (pc = "poll") ~> (pc \in {"done", "failed"})

\* a deposit was confirmed by a check that followed absent answers
C30_Witness ==
    /\ kind = "submitDeposit" /\ pc = "done" /\ confirmed
    /\ retries > 1 /\ Len(delays) = retries

====
